---- MODULE Spec2Model ----
(***************************************************************************)
(* Model of the signal pipeline of the Kraken descending-highs analyser:   *)
(*   - fetch_ohlc (src/src/api/data_fetcher.py): cache freshness, the      *)
(*     incremental since cursor, merge, resample and persistence;          *)
(*   - detect_descending_rules (src/src/analysis/pattern_detector2.py).    *)
(* Model time is counted in minutes; the source counts epoch seconds, so   *)
(* "interval_minutes * 60" seconds is "interval_minutes" here.             *)
(***************************************************************************)
EXTENDS Integers, Sequences, FiniteSets, TLC

VARIABLES
    tf,         \* the timeframe of the (pair, timeframe) cache entry under study
    now,        \* wall clock, minutes
    cacheFile,  \* the parquet file at _cache_path(pair, tf)
    state,      \* content of STATE_FILE: state key -> last_ts, or None
    last,       \* record of the last fetch_ohlc call (inputs, path taken, outcome)
    pending,    \* fetch_ohlc suspended inside df.to_parquet (SpecWrite only)
    seen,       \* what a concurrent reader of the cache path observed last
    dIn,        \* arguments and environment of one detect_descending_rules call
    dOut        \* what that call produced

fetchVars == <<tf, now, cacheFile, state, last, pending, seen>>
detVars == <<dIn, dOut>>
vars == <<fetchVars, detVars>>

None == "None"

\* an optional integer: <<>> is Python's None, <<x>> the integer x
NoInt == <<>>
Some(x) == <<x>>

----------------------------------------------------------------------------
(* Bounds of the model *)

\* a model month has this many days (the calendar has 28..31)
DaysPerMonth == 2
\* the clock runs for this many half-TTL ticks after Start
MaxTicks == 2
\* the wall clock at the start of a run, minutes since the epoch (7 days + 2 hours)
Start == 10200

\* upstream candles sit on these interval slots
Slots == {1, 2}
\* an upstream response carries at most this many candles
RespLens == {0, 1, 2}

\* candle payloads the candle source may deliver
Vals == {1, 2}

----------------------------------------------------------------------------
(* config/settings.py *)

TFs == {"monthly", "daily", "4h"}

TIMEFRAMES ==
    [t \in TFs |->
        CASE t = "monthly" -> [interval_minutes |-> 1440, history_days |-> NoInt,
                               cache_ttl_hours |-> 24, resample_rule |-> "ME"]
          [] t = "daily"   -> [interval_minutes |-> 1440, history_days |-> NoInt,
                               cache_ttl_hours |-> 6, resample_rule |-> None]
          [] t = "4h"      -> [interval_minutes |-> 240, history_days |-> Some(7),
                               cache_ttl_hours |-> 2, resample_rule |-> None]]

cache_ttl(cfg) == cfg.cache_ttl_hours * 60

MinutesPerDay == 1440

----------------------------------------------------------------------------
(* Exact rationals <<num, den>>, den > 0, in lowest terms (float columns   *)
(* whose value is a mean).                                                 *)

RECURSIVE GCD(_, _)
GCD(a, b) == IF b = 0 THEN a ELSE GCD(b, a % b)

Abs(x) == IF x < 0 THEN -x ELSE x

Norm(n, d) ==
    LET g == GCD(Abs(n), d) IN
    IF n = 0 THEN <<0, 1>> ELSE <<n \div g, d \div g>>

FracAdd(p, q) == Norm(p[1] * q[2] + q[1] * p[2], p[2] * q[2])

RECURSIVE FracSum(_)
FracSum(s) == IF s = <<>> THEN <<0, 1>> ELSE FracAdd(Head(s), FracSum(Tail(s)))

FracMean(s) == LET t == FracSum(s) IN Norm(t[1], t[2] * Len(s))

----------------------------------------------------------------------------
(* Candle frames: a DataFrame is the sequence of its rows *)

\* the raw tuple the candle source delivers for slot k with payload v
RawCandle(t, k, v) ==
    [time |-> k * TIMEFRAMES[t].interval_minutes,
     open |-> v, high |-> v + 1, low |-> v - 1, close |-> v,
     vwap |-> <<v, 1>>, volume |-> v, count |-> 1]


\* what client.get_ohlc can do: raise, or return a list of raw candles
\* (any order, repeated timestamps included; one payload per response)
Responses(t) ==
    UNION {{[i \in 1..n |-> RawCandle(t, ks[i], v)] : ks \in [1..n -> Slots], v \in Vals} :
           n \in RespLens}
UpstreamError == [error |-> TRUE, raw |-> <<>>]
UpstreamOutcomes(t) ==
    {UpstreamError} \cup {[error |-> FALSE, raw |-> r] : r \in Responses(t)}

Times(df) == {df[i].time : i \in 1..Len(df)}

MaxTime(df) == CHOOSE m \in Times(df) : \A x \in Times(df) : x <= m

\* insert row r after every row whose time is <= r.time (stable)
RECURSIVE InsertByTime(_, _)
InsertByTime(s, r) ==
    IF s = <<>> THEN <<r>>
    ELSE IF Head(s).time <= r.time THEN <<Head(s)>> \o InsertByTime(Tail(s), r)
    ELSE <<r>> \o s

RECURSIVE SortValues(_)
SortValues(df) ==
    IF df = <<>> THEN <<>>
    ELSE InsertByTime(SortValues(SubSeq(df, 1, Len(df) - 1)), df[Len(df)])

\* drop_duplicates(subset=["time"]): the first row of each timestamp is kept
DropDuplicates(df) ==
    LET keep(i) == \A j \in 1..(i - 1) : df[j].time # df[i].time
        RECURSIVE from(_)
        from(i) == IF i > Len(df) THEN <<>>
                   ELSE IF keep(i) THEN <<df[i]>> \o from(i + 1) ELSE from(i + 1)
    IN from(1)

\* month-end label of the calendar month holding time t (midnight of its last day)
MonthEnd(t) ==
    (((t \div MinutesPerDay) \div DaysPerMonth + 1) * DaysPerMonth - 1) * MinutesPerDay

RECURSIVE SortedSeqOfSet(_)
SortedSeqOfSet(S) ==
    IF S = {} THEN <<>>
    ELSE LET m == CHOOSE x \in S : \A y \in S : x <= y IN
         <<m>> \o SortedSeqOfSet(S \ {m})

SetMax(S) == CHOOSE m \in S : \A x \in S : x <= m
SetMin(S) == CHOOSE m \in S : \A x \in S : m <= x

RECURSIVE SumSeq(_)
SumSeq(s) == IF s = <<>> THEN 0 ELSE Head(s) + SumSeq(Tail(s))

Bucket(df, label) == SelectSeq(df, LAMBDA r : MonthEnd(r.time) = label)

AggBucket(rows, label) ==
    [time   |-> label,
     open   |-> rows[1].open,
     high   |-> SetMax({rows[i].high : i \in 1..Len(rows)}),
     low    |-> SetMin({rows[i].low : i \in 1..Len(rows)}),
     close  |-> rows[Len(rows)].close,
     vwap   |-> FracMean([i \in 1..Len(rows) |-> rows[i].vwap]),
     volume |-> SumSeq([i \in 1..Len(rows) |-> rows[i].volume]),
     count  |-> SumSeq([i \in 1..Len(rows) |-> rows[i].count])]

\* _resample_ohlc: one row per non-empty month (empty buckets are all-null: dropna)
_resample_ohlc(df) ==
    LET labels == SortedSeqOfSet({MonthEnd(t) : t \in Times(df)}) IN
    [i \in 1..Len(labels) |-> AggBucket(Bucket(df, labels[i]), labels[i])]

----------------------------------------------------------------------------
(* src/src/api/data_fetcher.py *)

_state_key(t) == t

NoFile == [exists |-> FALSE, readable |-> FALSE, mtime |-> 0, rows |-> <<>>]

_is_cache_fresh(file, ttl, clock) ==
    /\ file.exists
    /\ clock - file.mtime < ttl

_kraken_ts(days_back, clock) ==
    IF days_back = NoInt THEN NoInt ELSE Some(clock - days_back[1] * MinutesPerDay)

\* Python "since or last_ts": None and 0 are both falsy
OrElse(a, b) == IF a = NoInt \/ a = Some(0) THEN b ELSE a[1]

Max2(a, b) == IF a >= b THEN a ELSE b

\* line 182
SinceCursor(since, last_ts, cfg) ==
    Max2(OrElse(since, last_ts), last_ts - cfg.interval_minutes)

\* lines 195-198
MergeFrames(base_df, df) == SortValues(DropDuplicates(base_df \o df))

\* (mutation: the state entry is written even for an empty frame)
StateAfter_Always(st, key, df) ==
    [st EXCEPT ![key] = IF df = <<>> THEN Some(0) ELSE Some(MaxTime(df))]

\* lines 206-209
StateAfter(st, key, df) ==
    IF df # <<>> THEN [st EXCEPT ![key] = Some(MaxTime(df))] ELSE st

\* (mutation: the prior frame is merged whether or not it was read)
BuildFrame_AlwaysMerge(cfg, hasBase, base_df, raw) ==
    LET df     == SortValues(raw)
        merged == IF base_df # <<>> THEN MergeFrames(base_df, df) ELSE df
    IN IF cfg.resample_rule # None THEN _resample_ohlc(merged) ELSE merged

\* lines 185-201: the frame built from the raw response and the prior frame
\* (hasBase is "base_df is not None")
BuildFrame(cfg, hasBase, base_df, raw) ==
    LET df     == SortValues(raw)
        merged == IF hasBase /\ base_df # <<>> THEN MergeFrames(base_df, df) ELSE df
    IN IF cfg.resample_rule # None THEN _resample_ohlc(merged) ELSE merged

\* fetch_ohlc up to (not including) the write of line 204
FetchPlan(t, file, clock, refresh, up) ==
    LET cfg    == TIMEFRAMES[t]
        since0 == _kraken_ts(cfg.history_days, clock)
        reads  == file.exists /\ ~refresh
        since  == IF reads /\ file.rows # <<>>
                  THEN Some(SinceCursor(since0, MaxTime(file.rows), cfg))
                  ELSE since0
        blank  == [fast |-> FALSE, called |-> FALSE, since |-> NoInt, resp |-> <<>>,
                   up_error |-> FALSE, outcome |-> "ok", ret |-> <<>>, writes |-> FALSE]
    IN IF ~refresh /\ _is_cache_fresh(file, cache_ttl(cfg), clock)
       THEN IF file.readable
            THEN [blank EXCEPT !.fast = TRUE, !.ret = file.rows]
            ELSE [blank EXCEPT !.fast = TRUE, !.outcome = "CorruptCache"]
       ELSE IF reads /\ ~file.readable
       THEN [blank EXCEPT !.outcome = "CorruptCache"]
       ELSE IF up.error
       THEN [blank EXCEPT !.called = TRUE, !.since = since, !.up_error = TRUE,
                          !.outcome = "UpstreamError"]
       ELSE [blank EXCEPT !.called = TRUE, !.since = since, !.resp = up.raw,
                          !.ret = BuildFrame(cfg, reads, file.rows, up.raw),
                          !.writes = TRUE]

LastOf(plan, file, clock, refresh) ==
    [kind |-> "fetch", refresh |-> refresh,
     prior |-> [exists |-> file.exists, readable |-> file.readable, rows |-> file.rows],
     age |-> IF file.exists THEN clock - file.mtime ELSE 0,
     horizon |-> _kraken_ts(TIMEFRAMES[tf].history_days, clock),
     up_error |-> plan.up_error,
     fast |-> plan.fast, called |-> plan.called, since |-> plan.since,
     resp |-> plan.resp, outcome |-> plan.outcome, ret |-> plan.ret,
     wrote |-> plan.writes]

NoPending == [active |-> FALSE, df |-> <<>>]

NoLast ==
    [kind |-> "none", refresh |-> FALSE,
     prior |-> [exists |-> FALSE, readable |-> FALSE, rows |-> <<>>], age |-> 0,
     horizon |-> NoInt, up_error |-> FALSE,
     fast |-> FALSE, called |-> FALSE, since |-> NoInt,
     resp |-> <<>>, outcome |-> "ok", ret |-> <<>>, wrote |-> FALSE]

\* fetch_ohlc(client, pair, tf, refresh), the whole call
Fetch(refresh, up) ==
    LET plan == FetchPlan(tf, cacheFile, now, refresh, up) IN
    /\ ~pending.active
    /\ last' = LastOf(plan, cacheFile, now, refresh)
    /\ IF plan.writes
       THEN /\ cacheFile' = [exists |-> TRUE, readable |-> TRUE, mtime |-> now,
                             rows |-> plan.ret]
            /\ state' = StateAfter(state, _state_key(tf), plan.ret)
       ELSE UNCHANGED <<cacheFile, state>>
    /\ UNCHANGED <<tf, now, pending, seen>>

----------------------------------------------------------------------------
(* src/src/analysis/pattern_detector2.py                                    *)
(* A candle frame is the sequence of its rows; the detector reads the time  *)
(* and high columns.  An indicator frame is a map from column names to      *)
(* columns of equal length; a cell is NoInt (null) or Some(value).          *)

PAT2_MONTHS_LOOKBACK == 2
PAT2_DAILY_LOOKBACK_DAYS == 30
PAT2_DAILY_RECENT_DAYS == 7
PAT2_4H_LOOKBACK_DAYS == 7
PAT2_4H_RECENT_BARS == 12

\* the lags passed to _ema_desc and the readiness thresholds beside them
LAG_EMA_12 == 12
LAG_EMA_50 == 50
LAG_EMA_200 == 200
LAG_EMA_7 == 7
\* tol=0.002 of the 4h check, in thousandths
TOL_4H_PER_MILLE == 2

NoReason == <<>>

\* Python "a or b" on optional reason strings
ReasonOr(a, b) == IF a = NoReason THEN b ELSE a

Highs(rows) == [i \in 1..Len(rows) |-> rows[i].high]

MaxHigh(rows) == SetMax({rows[i].high : i \in 1..Len(rows)})

\* df.tail(n)
Tail_n(rows, n) ==
    IF Len(rows) <= n THEN rows ELSE SubSeq(rows, Len(rows) - n + 1, Len(rows))

\* _slope: least-squares slope of y over x = 0..n-1, as an exact rational
_slope(y) ==
    LET n   == Len(y)
        sx  == SumSeq([i \in 1..n |-> i - 1])
        sy  == SumSeq(y)
        sxy == SumSeq([i \in 1..n |-> (i - 1) * y[i]])
        sxx == SumSeq([i \in 1..n |-> (i - 1) * (i - 1)])
    IN IF n < 2 THEN <<0, 1>> ELSE Norm(n * sxy - sx * sy, n * sxx - sx * sx)

PatternResult(passed, slope, peaks, score, violations, max_break, reason) ==
    [kind |-> "result", passed |-> passed, slope |-> slope, peaks |-> peaks,
     score |-> score, violations |-> violations, max_break |-> max_break,
     reason |-> reason]

\* the call ended in an exception instead of a PatternResult
Raised(exc) ==
    [kind |-> exc, passed |-> FALSE, slope |-> <<0, 1>>, peaks |-> <<>>,
     score |-> 0, violations |-> 0, max_break |-> 0, reason |-> NoReason]

NoResult == Raised("none")

FloatOf(b) == IF b THEN 1 ELSE 0

\* the indicator file of (pair, tf): absent, unreadable, or a frame
NoIndicators(status) == [status |-> status, cols |-> [c \in {} |-> <<>>]]

\* _load_indicators: None unless the file exists and parses
Loaded(ind) == ind.status = "ok"

HasCol(ind, col) == col \in DOMAIN ind.cols

\* ind.dropna(subset=[col])[col]
DropNa(ind, col) == SelectSeq(ind.cols[col], LAMBDA c : c # NoInt)

\* (mutation: the comparison reaches back lag - 1 rows instead of lag)
_ema_desc_ShortLag(ind, col, lag, strict, tol) ==
    IF ~Loaded(ind) \/ ~HasCol(ind, col)
    THEN IF strict THEN <<FALSE, <<"missing", col>> >> ELSE <<TRUE, NoReason>>
    ELSE LET clean == DropNa(ind, col) IN
         IF Len(clean) <= lag
         THEN IF strict THEN <<FALSE, <<"insufficient", col>> >> ELSE <<TRUE, NoReason>>
         ELSE LET past_val   == clean[Len(clean) - lag + 1][1]
                  recent_val == clean[Len(clean)][1]
                  descending == recent_val * 1000 < past_val * (1000 + tol)
              IN <<descending, IF descending THEN NoReason ELSE <<col, "not descending">> >>

\* _ema_desc (lines 30-43); tol is given in thousandths
_ema_desc(ind, col, lag, strict, tol) ==
    IF ~Loaded(ind) \/ ~HasCol(ind, col)
    THEN IF strict THEN <<FALSE, <<"missing", col>> >> ELSE <<TRUE, NoReason>>
    ELSE LET clean == DropNa(ind, col) IN
         IF Len(clean) <= lag
         THEN IF strict THEN <<FALSE, <<"insufficient", col>> >> ELSE <<TRUE, NoReason>>
         ELSE LET past_val   == clean[Len(clean) - lag][1]
                  recent_val == clean[Len(clean)][1]
                  descending == recent_val * 1000 < past_val * (1000 + tol)
              IN <<descending, IF descending THEN NoReason ELSE <<col, "not descending">> >>

\* lines 62-72
DetectMonthly(df, ind) ==
    IF Len(df) < PAT2_MONTHS_LOOKBACK
    THEN PatternResult(FALSE, <<0, 1>>, <<>>, 0, 0, 0, <<"insufficient months">>)
    ELSE LET last_two     == Tail_n(df, PAT2_MONTHS_LOOKBACK)
             current_high == last_two[Len(last_two)].high
             prev_high    == last_two[Len(last_two) - 1].high
             highs_pass   == current_high <= prev_high
             ema          == _ema_desc(ind, "ema_12", LAG_EMA_12, TRUE, 0)
             passed       == highs_pass /\ ema[1]
         IN PatternResult(passed, _slope(Highs(last_two)), last_two, FloatOf(passed),
                          IF passed THEN 0 ELSE 1, 0,
                          IF passed THEN NoReason
                          ELSE ReasonOr(ema[2], <<"current high > prev high">>))

\* lines 85-108: <<raised, ema_pass, reason>>
DailyEma(ind) ==
    IF Loaded(ind) /\ HasCol(ind, "ema_50")
    THEN LET ema50_ready == Len(DropNa(ind, "ema_50")) > LAG_EMA_50
             e50  == IF ema50_ready THEN _ema_desc(ind, "ema_50", LAG_EMA_50, TRUE, 0)
                     ELSE <<FALSE, NoReason>>
             e200 == IF HasCol(ind, "ema_200") /\ Len(DropNa(ind, "ema_200")) > LAG_EMA_200
                     THEN _ema_desc(ind, "ema_200", LAG_EMA_200, TRUE, 0)
                     ELSE <<TRUE, NoReason>>
         IN IF ~HasCol(ind, "ema_200")
            THEN <<TRUE, FALSE, NoReason>>    \* line 98: dropna on a missing column
            ELSE IF Len(DropNa(ind, "ema_200")) > LAG_EMA_200
            THEN LET ema_pass == e50[1] /\ e200[1] IN
                 <<FALSE, ema_pass,
                   IF ema_pass THEN NoReason
                   ELSE ReasonOr(e200[2], ReasonOr(e50[2], <<"ema 50/200 not descending">>))>>
            ELSE <<FALSE, e50[1],
                   IF e50[1] THEN NoReason ELSE ReasonOr(e50[2], <<"ema 50 not descending">>)>>
    ELSE <<FALSE, FALSE, <<"missing ema 50">> >>

\* lines 74-111
DetectDaily(df, ind, clock) ==
    LET cutoff     == clock - PAT2_DAILY_LOOKBACK_DAYS * MinutesPerDay
        window     == SelectSeq(df, LAMBDA r : r.time >= cutoff)
        recent_cut == clock - PAT2_DAILY_RECENT_DAYS * MinutesPerDay
        recent     == SelectSeq(window, LAMBDA r : r.time >= recent_cut)
        baseline   == SelectSeq(window, LAMBDA r : r.time < recent_cut)
    IN IF window = <<>>
       THEN PatternResult(FALSE, <<0, 1>>, <<>>, 0, 0, 0, <<"no recent data">>)
       ELSE IF baseline = <<>> \/ recent = <<>>
       THEN PatternResult(FALSE, <<0, 1>>, window, 0, 0, 0, <<"not enough split">>)
       ELSE LET highs_pass == MaxHigh(recent) <= MaxHigh(baseline)
                ema        == DailyEma(ind)
                passed     == highs_pass /\ ema[2]
            IN IF ema[1] THEN Raised("KeyError")
               ELSE PatternResult(passed, _slope(Highs(window)), window, FloatOf(passed),
                                  IF passed THEN 0 ELSE 1, 0,
                                  IF passed THEN NoReason
                                  ELSE ReasonOr(ema[3], <<"recent high > prior window">>))

\* the rows of an indicator frame whose time cell is >= cutoff (line 129)
RECURSIVE KeepFrom(_, _, _)
KeepFrom(col, time, cutoff) ==
    IF col = <<>> THEN <<>>
    ELSE IF Head(time) # NoInt /\ Head(time)[1] >= cutoff
    THEN <<Head(col)>> \o KeepFrom(Tail(col), Tail(time), cutoff)
    ELSE KeepFrom(Tail(col), Tail(time), cutoff)

IndWindow(ind, cutoff) ==
    IF HasCol(ind, "time")
    THEN [ind EXCEPT !.cols = [c \in DOMAIN ind.cols |->
                                   KeepFrom(ind.cols[c], ind.cols["time"], cutoff)]]
    ELSE ind

\* lines 126-139: <<ema_pass, reason>>
FourHourEma(ind, cutoff) ==
    IF Loaded(ind) /\ HasCol(ind, "ema_7")
    THEN LET ind_window == IndWindow(ind, cutoff) IN
         IF Len(DropNa(ind_window, "ema_7")) > LAG_EMA_7
         THEN _ema_desc(ind_window, "ema_7", LAG_EMA_7, TRUE, TOL_4H_PER_MILLE)
         ELSE <<FALSE, <<"insufficient ema_7">> >>
    ELSE <<FALSE, <<"missing ema_7">> >>

\* lines 113-142
Detect4h(df, ind, clock) ==
    LET cutoff == clock - PAT2_4H_LOOKBACK_DAYS * MinutesPerDay
        window == SelectSeq(df, LAMBDA r : r.time >= cutoff)
    IN IF window = <<>>
       THEN PatternResult(FALSE, <<0, 1>>, <<>>, 0, 0, 0, <<"no recent data">>)
       ELSE IF Len(window) <= PAT2_4H_RECENT_BARS
       THEN PatternResult(FALSE, <<0, 1>>, window, 0, 0, 0, <<"not enough bars">>)
       ELSE LET recent     == Tail_n(window, PAT2_4H_RECENT_BARS)
                baseline   == SubSeq(window, 1, Len(window) - PAT2_4H_RECENT_BARS)
                highs_pass == MaxHigh(recent) <= MaxHigh(baseline)
                ema        == FourHourEma(ind, cutoff)
                passed     == highs_pass /\ ema[1]
            IN PatternResult(passed, _slope(Highs(window)), window, FloatOf(passed),
                             IF passed THEN 0 ELSE 1, 0,
                             IF passed THEN NoReason
                             ELSE ReasonOr(ema[2], <<"recent high > prior bars">>))

\* detect_descending_rules(df, tf, pair), with the indicator file of (pair, tf)
\* and the wall clock as explicit arguments
detect_descending_rules(df, t, ind, clock) ==
    IF df = <<>>
    THEN PatternResult(FALSE, <<0, 1>>, <<>>, 0, 0, 0, <<"no data">>)
    ELSE CASE t = "monthly" -> DetectMonthly(df, ind)
           [] t = "daily"   -> DetectDaily(df, ind, clock)
           [] t = "4h"      -> Detect4h(df, ind, clock)
           [] OTHER         -> PatternResult(FALSE, <<0, 1>>, <<>>, 0, 0, 0,
                                             <<"unsupported tf">>)

----------------------------------------------------------------------------
(* Inputs of the detector *)

\* a monthly input frame has at most this many rows
MaxMonths == 3

HighVals == {1, 2}

\* the value of row i of n non-null rows of a trend-average column
ShapeValue(shape, i, n) ==
    CASE shape = "down"     -> 1000 + n - i
      [] shape = "flat"     -> 1000
      [] shape = "latedown" -> IF i = 1 THEN 1000 ELSE 2000 + n - i
      [] shape = "near"     -> IF i = n THEN 1001 ELSE 1000
      [] shape = "edge"     -> IF i = n THEN 1002 ELSE 1000
      [] shape = "over"     -> IF i = n THEN 1003 ELSE 1000

\* a column of len rows whose last n rows are non-null (the warm-up rows are null)
Column(len, n, shape) ==
    [i \in 1..len |-> IF i <= len - n THEN NoInt ELSE Some(ShapeValue(shape, i - (len - n), n))]

TimeColumn(len, clock, spacing) ==
    [i \in 1..len |-> Some(clock - (len - i) * spacing)]

\* an indicator frame: spec maps each trend-average column to <<n, shape>>
IndFrame(spec, len, withTime, clock, spacing) ==
    [status |-> "ok",
     cols   |-> [c \in DOMAIN spec \cup (IF withTime THEN {"time"} ELSE {}) |->
                    IF c = "time" THEN TimeColumn(len, clock, spacing)
                    ELSE Column(len, spec[c][1], spec[c][2])]]

NoFrames == {NoIndicators("absent"), NoIndicators("unreadable")}

OneCol(c, n, shape) == [x \in {c} |-> <<n, shape>>]

MonthlyIndicators(clock) ==
    NoFrames
    \cup {IndFrame(OneCol("ema_50", LAG_EMA_12 + 1, "down"), LAG_EMA_12 + 1, TRUE, clock,
                   MinutesPerDay)}
    \cup {IndFrame(OneCol("ema_12", n, sh), n + 1, TRUE, clock, MinutesPerDay) :
            n \in {LAG_EMA_12, LAG_EMA_12 + 1}, sh \in {"down", "flat", "latedown"}}

DailyIndicators(clock) ==
    NoFrames
    \cup {IndFrame(OneCol("ema_200", LAG_EMA_200 + 1, "down"), LAG_EMA_200 + 1, TRUE, clock,
                   MinutesPerDay)}
    \cup {IndFrame(OneCol("ema_50", n, sh), n + 1, TRUE, clock, MinutesPerDay) :
            n \in {LAG_EMA_50, LAG_EMA_50 + 1}, sh \in {"down", "flat", "latedown"}}
    \cup {IndFrame([c \in {"ema_50", "ema_200"} |->
                       IF c = "ema_50" THEN <<n50, s50>> ELSE <<n200, s200>>],
                   LAG_EMA_200 + 1, TRUE, clock, MinutesPerDay) :
            n50 \in {LAG_EMA_50, LAG_EMA_50 + 1}, s50 \in {"down", "flat"},
            n200 \in {LAG_EMA_200, LAG_EMA_200 + 1}, s200 \in {"down", "flat", "latedown"}}

FourHourIndicators(clock) ==
    NoFrames
    \cup {IndFrame(OneCol("ema_12", LAG_EMA_7 + 1, "down"), LAG_EMA_7 + 1, TRUE, clock, 240)}
    \cup {IndFrame(OneCol("ema_7", n, sh), n + 1, withTime, clock, spacing) :
            n \in {LAG_EMA_7, LAG_EMA_7 + 1},
            sh \in {"down", "flat", "near", "edge", "over", "latedown"},
            withTime \in BOOLEAN, spacing \in {240, MinutesPerDay}}

Bar(t, h) == [time |-> t, high |-> h]

MonthlyFrames(clock) ==
    UNION {{[i \in 1..n |-> Bar(clock - (n - i) * DaysPerMonth * MinutesPerDay, hs[i])] :
              hs \in [1..n -> HighVals]} : n \in 0..MaxMonths}

\* daily bars 40, 20 and 3 days before the clock, each present or not
DailyFrames(clock) ==
    {SelectSeq(<<Bar(clock - 40 * MinutesPerDay, p[1]), Bar(clock - 20 * MinutesPerDay, p[2]),
                 Bar(clock - 3 * MinutesPerDay, p[3])>>, LAMBDA r : r.high # 0) :
       p \in [1..3 -> {0} \cup HighVals]}

\* n 4h bars ending at the clock: the last PAT2_4H_RECENT_BARS carry hr, the
\* earlier ones hb; optionally one more bar from before the lookback window
FourHourFrames(clock) ==
    {(IF old THEN <<Bar(clock - (PAT2_4H_LOOKBACK_DAYS + 1) * MinutesPerDay, hb)>> ELSE <<>>)
       \o [i \in 1..n |-> Bar(clock - (n - i) * 240,
                              IF i <= n - PAT2_4H_RECENT_BARS THEN hb ELSE hr)] :
       n \in {PAT2_4H_RECENT_BARS, PAT2_4H_RECENT_BARS + 1, PAT2_4H_RECENT_BARS + 2},
       hb \in HighVals, hr \in HighVals, old \in BOOLEAN}

DetectCall(t, df, ind, clock) == [tf |-> t, df |-> df, ind |-> ind, clock |-> clock]

DetectInputs ==
    {DetectCall("monthly", df, ind, Start) :
        df \in MonthlyFrames(Start), ind \in MonthlyIndicators(Start)}
    \cup {DetectCall("daily", df, ind, Start) :
        df \in DailyFrames(Start), ind \in DailyIndicators(Start)}
    \cup {DetectCall("4h", df, ind, Start) :
        df \in FourHourFrames(Start), ind \in FourHourIndicators(Start)}
    \cup {DetectCall("1h", df, ind, Start) :
        df \in MonthlyFrames(Start), ind \in NoFrames}

NoInput == DetectCall("monthly", <<>>, NoIndicators("absent"), Start)

----------------------------------------------------------------------------
(* Environment *)

TickMinutes(t) == cache_ttl(TIMEFRAMES[t]) \div 2

\* the wall clock advances by half a TTL
Tick ==
    /\ now + TickMinutes(tf) <= Start + MaxTicks * TickMinutes(tf)
    /\ now' = now + TickMinutes(tf)
    /\ UNCHANGED <<tf, cacheFile, state, last, pending, seen>>

\* the cache file becomes unreadable (disk fault, interrupted write)
Corrupt ==
    /\ ~pending.active
    /\ cacheFile.exists /\ cacheFile.readable
    /\ cacheFile' = [cacheFile EXCEPT !.readable = FALSE, !.rows = <<>>]
    /\ UNCHANGED <<tf, now, state, last, pending, seen>>

\* a cache left by an earlier run: a cold fetch of response r, one TTL ago
EarlierCache(t, r) ==
    [exists |-> TRUE, readable |-> TRUE, mtime |-> Start - cache_ttl(TIMEFRAMES[t]),
     rows |-> BuildFrame(TIMEFRAMES[t], FALSE, <<>>, r)]

Init ==
    /\ tf \in TFs
    /\ now = Start
    /\ \/ /\ cacheFile = NoFile
          /\ state = [k \in TFs |-> NoInt]
       \/ \E r \in Responses(tf) :
            /\ cacheFile = EarlierCache(tf, r)
            /\ state = StateAfter([k \in TFs |-> NoInt], _state_key(tf), cacheFile.rows)
    /\ last = NoLast
    /\ pending = NoPending
    /\ seen = "none"
    /\ dIn = NoInput
    /\ dOut = NoResult

Next ==
    /\ \/ \E refresh \in BOOLEAN, up \in UpstreamOutcomes(tf) : Fetch(refresh, up)
       \/ Tick
       \/ Corrupt
    /\ UNCHANGED detVars

Spec == Init /\ [][Next]_vars

----------------------------------------------------------------------------
(* The write of line 204 seen by a concurrent reader of the cache path.     *)
(* df.to_parquet(cache_file) opens the cache path itself and writes into    *)
(* it (no temporary file, no rename): between FetchBegin and FetchEnd the   *)
(* path holds a truncated file.  Calls that write nothing change nothing    *)
(* a reader can see and are left out; the call record stays with Spec.      *)

\* fetch_ohlc from its entry until to_parquet has opened the path for writing
FetchBegin(refresh, up) ==
    LET plan == FetchPlan(tf, cacheFile, now, refresh, up) IN
    /\ ~pending.active
    /\ plan.writes
    /\ cacheFile' = [exists |-> TRUE, readable |-> FALSE, mtime |-> now, rows |-> <<>>]
    /\ pending' = [active |-> TRUE, df |-> plan.ret]
    /\ UNCHANGED <<tf, now, state, last, seen>>

\* to_parquet completes, the state file is updated, fetch_ohlc returns
FetchEnd ==
    /\ pending.active
    /\ cacheFile' = [exists |-> TRUE, readable |-> TRUE, mtime |-> now, rows |-> pending.df]
    /\ state' = StateAfter(state, _state_key(tf), pending.df)
    /\ pending' = NoPending
    /\ UNCHANGED <<tf, now, last, seen>>

\* another process opens the cache path and reads it (pd.read_parquet)
Read ==
    /\ seen' = IF ~cacheFile.exists THEN "missing"
               ELSE IF cacheFile.readable THEN "complete"
               ELSE "partial"
    /\ UNCHANGED <<tf, now, cacheFile, state, last, pending>>

InitWrite ==
    /\ tf \in TFs
    /\ now = Start
    /\ cacheFile = NoFile
    /\ state = [k \in TFs |-> NoInt]
    /\ last = NoLast
    /\ pending = NoPending
    /\ seen = "none"
    /\ dIn = NoInput
    /\ dOut = NoResult

NextWrite ==
    /\ \/ \E refresh \in BOOLEAN, up \in UpstreamOutcomes(tf) : FetchBegin(refresh, up)
       \/ FetchEnd
       \/ Read
       \/ Tick
    /\ UNCHANGED detVars

SpecWrite == InitWrite /\ [][NextWrite]_vars

\* C7: the overwrite is atomic for readers: whenever a reader opens the cache
\* path it finds no file yet or a complete series (the previous one or the new
\* one), never a partially written file.
C7_AtomicOverwrite == seen # "partial"

----------------------------------------------------------------------------
(* Properties of fetch_ohlc *)

IsFetch == last.kind = "fetch"

\* the call took the non-fast path over an existing cache, forceRefresh false
StalePath(l) == l.kind = "fetch" /\ ~l.refresh /\ l.prior.exists /\ ~l.fast

Stored(l) == l.outcome = "ok" /\ l.wrote

\* C1: merge is idempotent for every timeframe: two consecutive stale-cache
\* fetches (forceRefresh false) that receive the same upstream data leave the
\* same stored series.
C1_MergeIdempotent ==
    [][(/\ StalePath(last) /\ Stored(last)
        /\ StalePath(last') /\ Stored(last')
        /\ last'.resp = last.resp
        /\ last'.prior.rows = last.ret)
       => last'.ret = last.ret]_vars

\* C2: a merge of a non-empty prior series with non-empty upstream data never
\* drops rows: the stored series is at least as long as the prior one and holds
\* every prior timestamp.
C2_MergeKeepsRows ==
    (StalePath(last) /\ Stored(last) /\ last.prior.rows # <<>> /\ last.resp # <<>>)
    => /\ Len(last.ret) >= Len(last.prior.rows)
       /\ Times(last.prior.rows) \subseteq Times(last.ret)

\* C3: the fast path is taken exactly when forceRefresh is false, the file exists
\* and its age is strictly below the TTL; it calls no source, returns the cached
\* series unchanged and writes nothing; every other call reaches the source.
C3_FastPathExactly ==
    IsFetch =>
        /\ last.fast <=> (/\ ~last.refresh
                          /\ last.prior.exists
                          /\ last.age < cache_ttl(TIMEFRAMES[tf]))
        /\ last.fast => (/\ ~last.called
                         /\ last.outcome = "ok"
                         /\ last.ret = last.prior.rows
                         /\ ~last.wrote)
        /\ ~last.fast => last.called

UsableCache(f) == f.exists /\ f.readable

\* C4: fetch fails with an upstream error exactly when the candle source errors
\* and no usable cache exists; a source error over a readable cache is not a
\* failure of fetch.
C4_FailsOnlyWithoutCache ==
    IsFetch =>
        /\ last.outcome = "UpstreamError" <=> (last.up_error /\ ~UsableCache(last.prior))
        /\ (last.up_error /\ UsableCache(last.prior)) => last.outcome = "ok"

\* C5: an unreadable cache file is a cache miss: the source is asked for the full
\* history (since = the horizon bound alone) and, unless the source itself fails,
\* the fetch succeeds, stores and returns that response, fresh file or stale.
C5_CorruptIsMiss ==
    (IsFetch /\ last.prior.exists /\ ~last.prior.readable)
    => /\ last.called
       /\ last.since = last.horizon
       /\ ~last.up_error =>
            /\ Stored(last)
            /\ last.ret = BuildFrame(TIMEFRAMES[tf], FALSE, <<>>, last.resp)

\* C6: an empty upstream response with no prior cache file yields an empty series
\* without an error, for every timeframe, and leaves the (pair, timeframe) entry
\* of the state file absent.
C6_EmptyColdFetch ==
    (IsFetch /\ ~last.prior.exists /\ last.called /\ ~last.up_error /\ last.resp = <<>>)
    => /\ last.outcome = "ok"
       /\ last.ret = <<>>
       /\ state[_state_key(tf)] = NoInt

C6_Witness ==
    /\ IsFetch /\ tf = "monthly" /\ ~last.prior.exists
    /\ last.called /\ ~last.up_error /\ last.resp = <<>>
    /\ Stored(last) /\ cacheFile.exists /\ cacheFile.rows = <<>>

----------------------------------------------------------------------------
(* One call of the variant-B detector on inputs drawn from DetectInputs *)

Detect ==
    /\ dOut.kind = "none"
    /\ dOut' = detect_descending_rules(dIn.df, dIn.tf, dIn.ind, dIn.clock)
    /\ UNCHANGED <<fetchVars, dIn>>

InitDetect ==
    /\ tf = "monthly"
    /\ now = Start
    /\ cacheFile = NoFile
    /\ state = [k \in TFs |-> NoInt]
    /\ last = NoLast
    /\ pending = NoPending
    /\ seen = "none"
    /\ dIn \in DetectInputs
    /\ dOut = NoResult

NextDetect == Detect

SpecDetect == InitDetect /\ [][NextDetect]_vars

Detected == dOut.kind # "none"

\* the non-null values of a trend-average column (none when file or column is missing)
Points(ind, col) == IF Loaded(ind) /\ HasCol(ind, col) THEN DropNa(ind, col) ELSE <<>>

\* the column has more than lag values and its last one is strictly below the
\* one lag periods earlier
StrictlyDecreased(ind, col, lag) ==
    LET c == Points(ind, col) IN
    /\ Len(c) > lag
    /\ c[Len(c)][1] < c[Len(c) - lag][1]

RequiredEma(t) ==
    CASE t = "monthly" -> <<"ema_12", LAG_EMA_12>>
      [] t = "daily"   -> <<"ema_50", LAG_EMA_50>>
      [] t = "4h"      -> <<"ema_7", LAG_EMA_7>>

\* C8: variant-B detect never raises because of indicator data, and whenever
\* the trend-average its rule requires is missing or too short the result is
\* passed=false with a reason.
C8_NeverRaisesOnIndicators ==
    (Detected /\ dIn.tf \in TFs) =>
        /\ dOut.kind = "result"
        /\ Len(Points(dIn.ind, RequiredEma(dIn.tf)[1])) <= RequiredEma(dIn.tf)[2]
            => (~dOut.passed /\ dOut.reason # NoReason)

MonthlyPass(df, ind) ==
    /\ Len(df) >= 2
    /\ df[Len(df)].high <= df[Len(df) - 1].high
    /\ StrictlyDecreased(ind, "ema_12", LAG_EMA_12)

\* C9 as first stated: monthly passes iff >= 2 periods, latest high <= previous
\* high and ema_12 strictly decreased over 12 periods; fewer than 2 periods fail
\* with reason "insufficient months".
C9_MonthlyRule_AsStated ==
    (Detected /\ dIn.tf = "monthly") =>
        /\ dOut.kind = "result"
        /\ dOut.passed <=> MonthlyPass(dIn.df, dIn.ind)
        /\ Len(dIn.df) < 2 => dOut.reason = <<"insufficient months">>

\* C9 (amended): monthly passes iff >= 2 periods, latest high <= previous high
\* and ema_12 has more than 12 non-null values with the last strictly below the
\* one 12 periods earlier; a latest high above the previous one fails whatever
\* the indicators; exactly 1 period fails with reason "insufficient months" and
\* an empty series with reason "no data".
C9_MonthlyRule ==
    (Detected /\ dIn.tf = "monthly") =>
        /\ dOut.kind = "result"
        /\ dOut.passed <=> MonthlyPass(dIn.df, dIn.ind)
        /\ (Len(dIn.df) >= 2 /\ dIn.df[Len(dIn.df)].high > dIn.df[Len(dIn.df) - 1].high)
            => ~dOut.passed
        /\ Len(dIn.df) = 1 => dOut.reason = <<"insufficient months">>
        /\ Len(dIn.df) = 0 => dOut.reason = <<"no data">>

C9_Witness ==
    /\ Detected /\ dIn.tf = "monthly" /\ dOut.kind = "result"
    /\ dOut.passed
    /\ Len(dIn.df) >= 2
    /\ Len(Points(dIn.ind, "ema_12")) > LAG_EMA_12

DailyRecent(c) ==
    SelectSeq(c.df, LAMBDA r : /\ r.time >= c.clock - PAT2_DAILY_LOOKBACK_DAYS * MinutesPerDay
                               /\ r.time >= c.clock - PAT2_DAILY_RECENT_DAYS * MinutesPerDay)

DailyBaseline(c) ==
    SelectSeq(c.df, LAMBDA r : /\ r.time >= c.clock - PAT2_DAILY_LOOKBACK_DAYS * MinutesPerDay
                               /\ r.time < c.clock - PAT2_DAILY_RECENT_DAYS * MinutesPerDay)

\* C10: daily, with non-empty recent and baseline windows: passed iff
\* max(high) of recent <= max(high) of baseline, and ema_50 strictly decreased
\* over 50 periods, and - whenever at least 200 ema_200 points are available -
\* ema_200 strictly decreased over 200 periods; with fewer points ema_50 alone
\* decides.
C10_DailyRule ==
    (Detected /\ dIn.tf = "daily" /\ DailyRecent(dIn) # <<>> /\ DailyBaseline(dIn) # <<>>) =>
        /\ dOut.kind = "result"
        /\ dOut.passed <=>
            /\ MaxHigh(DailyRecent(dIn)) <= MaxHigh(DailyBaseline(dIn))
            /\ StrictlyDecreased(dIn.ind, "ema_50", LAG_EMA_50)
            /\ Len(Points(dIn.ind, "ema_200")) >= LAG_EMA_200
                => StrictlyDecreased(dIn.ind, "ema_200", LAG_EMA_200)

FourHourWindow(c) ==
    SelectSeq(c.df, LAMBDA r : r.time >= c.clock - PAT2_4H_LOOKBACK_DAYS * MinutesPerDay)

\* the non-null ema_7 values the 4h rule looks at
Ema7Points(c) ==
    IF Loaded(c.ind) /\ HasCol(c.ind, "ema_7")
    THEN DropNa(IndWindow(c.ind, c.clock - PAT2_4H_LOOKBACK_DAYS * MinutesPerDay), "ema_7")
    ELSE <<>>

FourHourHighsPass(c) ==
    LET w == FourHourWindow(c) IN
    MaxHigh(Tail_n(w, PAT2_4H_RECENT_BARS)) <= MaxHigh(SubSeq(w, 1, Len(w) - PAT2_4H_RECENT_BARS))

\* C11: 4h, more than 12 bars in the 7-day window: passed iff max(high) of the
\* last 12 bars <= max(high) of the earlier bars and the latest ema_7 value is
\* at most 0.2% above the value 7 periods earlier, the bound itself included
\* (recent <= 1.002 * lag value); a recent value more than 0.2% above fails.
C11_FourHourRule ==
    (Detected /\ dIn.tf = "4h" /\ Len(FourHourWindow(dIn)) > PAT2_4H_RECENT_BARS) =>
        LET e == Ema7Points(dIn) IN
        /\ dOut.kind = "result"
        /\ dOut.passed <=>
            /\ FourHourHighsPass(dIn)
            /\ Len(e) > LAG_EMA_7
            /\ e[Len(e)][1] * 1000 <= e[Len(e) - LAG_EMA_7][1] * (1000 + TOL_4H_PER_MILLE)
        /\ (Len(e) > LAG_EMA_7
            /\ e[Len(e)][1] * 1000 > e[Len(e) - LAG_EMA_7][1] * (1000 + TOL_4H_PER_MILLE))
            => ~dOut.passed

----------------------------------------------------------------------------
(* Variant-A detector: src/src/analysis/pattern_detector.py *)

FracNeg(p) == <<-p[1], p[2]>>

FracSub(p, q) == FracAdd(p, FracNeg(q))

FracMul(p, q) == Norm(p[1] * q[1], p[2] * q[2])

FracLeq(p, q) == p[1] * q[2] <= q[1] * p[2]

FracMax(p, q) == IF FracLeq(p, q) THEN q ELSE p

FracMin(p, q) == IF FracLeq(p, q) THEN p ELSE q

Half == <<1, 2>>

Zero == <<0, 1>>

\* main.py: PATTERN_MIN_PEAKS, PATTERN_ORDER
PATTERN_MIN_PEAKS == [t \in TFs |-> IF t = "monthly" THEN 3 ELSE 4]

PATTERN_ORDER == [t \in TFs |-> 2]

\* scipy.signal.argrelextrema(highs, np.greater, order=order), mode="clip":
\* index i is kept iff highs[i] is strictly above the values 1..order positions
\* to each side, positions beyond an end being read as that end
IsPeak(highs, i, order) ==
    \A s \in 1..order :
        /\ highs[i] > highs[IF i + s > Len(highs) THEN Len(highs) ELSE i + s]
        /\ highs[i] > highs[IF i - s < 1 THEN 1 ELSE i - s]

argrelextrema(highs, order) ==
    SortedSeqOfSet({i \in 1..Len(highs) : IsPeak(highs, i, order)})

\* lines 45-52: the violating steps and the break fraction of each
BreakSteps(hs) == {i \in 2..Len(hs) : ~(hs[i] < hs[i - 1])}

DescendingSteps(hs) == Cardinality({i \in 2..Len(hs) : hs[i] < hs[i - 1]})

RECURSIVE MaxBreak(_, _)
MaxBreak(hs, i) ==
    IF i > Len(hs) THEN Zero
    ELSE IF ~(hs[i] < hs[i - 1]) /\ hs[i - 1] > 0
    THEN FracMax(Norm(hs[i] - hs[i - 1], hs[i - 1]), MaxBreak(hs, i + 1))
    ELSE MaxBreak(hs, i + 1)

\* line 64, mutated: the two-step floor is dropped
PassedRule_ScoreOnly(score, descending_steps) == FracLeq(Half, score)

\* line 64, mutated: the score floor is dropped
PassedRule_StepsOnly(score, descending_steps) == descending_steps >= 2

\* line 64: passed = score >= 0.5 and descending_steps >= 2
PassedRule(score, descending_steps) == FracLeq(Half, score) /\ descending_steps >= 2

\* line 36, mutated: the peak count is never checked
EnoughPeaks_Always(peaks, min_peaks) == TRUE

\* line 36
EnoughPeaks(peaks, min_peaks) == ~(Len(peaks) < min_peaks)

\* lines 22-65; score and max_break_pct are exact rationals
detect_lower_highs_scored(df, min_peaks, order) ==
    IF df = <<>>
    THEN PatternResult(FALSE, Zero, <<>>, Zero, 0, Zero, <<"no data">>)
    ELSE IF Len(df) < Max2(min_peaks * order, 5)
    THEN PatternResult(FALSE, Zero, <<>>, Zero, 0, Zero, <<"insufficient candles">>)
    ELSE
    LET peak_idx == argrelextrema(Highs(df), order)
        peaks    == [j \in 1..Len(peak_idx) |-> df[peak_idx[j]]]
    IN IF ~EnoughPeaks(peaks, min_peaks)
       THEN PatternResult(FALSE, Zero, peaks, Zero, 0, Zero, <<"not enough peaks">>)
       ELSE
       LET highs_series     == Highs(peaks)
           total_steps      == Len(highs_series) - 1
           descending_steps == DescendingSteps(highs_series)
           violations       == Cardinality(BreakSteps(highs_series))
           max_break_pct    == MaxBreak(highs_series, 2)
           base_score       == IF total_steps > 0 THEN Norm(descending_steps, total_steps)
                               ELSE Zero
           penalty          == FracMin(FracMul(max_break_pct, Half), Half)
           score0           == FracMax(FracSub(base_score, penalty), Zero)
           slope            == _slope(highs_series)
           score            == IF FracLeq(Zero, slope) THEN FracMul(score0, Half) ELSE score0
           passed           == PassedRule(score, descending_steps)
       IN PatternResult(passed, slope, peaks, score, violations, max_break_pct,
                        IF passed THEN NoReason ELSE <<"weak descent">>)

\* frames of at most this many rows are enumerated in full
MaxShort == 5

\* frames built around at most this many separated peaks
MaxPeaks == 4

ShortVals == {0, 1, 2}

PeakVals == {1, 2, 3, 4}

\* k peaks with highs ps, each between rows of high 0: 0 p 0 | 0 p 0 | ...
PeakFrame(ps) ==
    [i \in 1..(3 * Len(ps)) |-> Bar(i * MinutesPerDay, IF i % 3 = 2 THEN ps[(i + 1) \div 3] ELSE 0)]

\* longer runs of peaks that never rise
NonIncreasingPeaks(k) ==
    {ps \in [1..k -> PeakVals] : \A i \in 2..k : ps[i] <= ps[i - 1]}

PeakFrames ==
    UNION {{[i \in 1..n |-> Bar(i * MinutesPerDay, hs[i])] : hs \in [1..n -> ShortVals]} :
             n \in 0..MaxShort}
    \cup UNION {{PeakFrame(ps) : ps \in [1..k -> PeakVals]} : k \in 1..MaxPeaks}
    \cup {PeakFrame(ps) : ps \in NonIncreasingPeaks(MaxPeaks + 1)}

PeaksCall(t, df) ==
    [tf |-> t, df |-> df, min_peaks |-> PATTERN_MIN_PEAKS[t], order |-> PATTERN_ORDER[t]]

\* detect_lower_highs_scored called with a min_peaks other than the configured
\* ones: the parameter of line 22
OtherMinPeaks == {2}

DirectCall(m, df) == [tf |-> "direct", df |-> df, min_peaks |-> m, order |-> 2]

PeakInputs ==
    {PeaksCall(t, df) : t \in TFs, df \in PeakFrames}
    \cup {DirectCall(m, df) : m \in OtherMinPeaks, df \in PeakFrames}

DetectPeaks ==
    /\ dOut.kind = "none"
    /\ dOut' = detect_lower_highs_scored(dIn.df, dIn.min_peaks, dIn.order)
    /\ UNCHANGED <<fetchVars, dIn>>

InitPeaks ==
    /\ tf = "monthly"
    /\ now = Start
    /\ cacheFile = NoFile
    /\ state = [k \in TFs |-> NoInt]
    /\ last = NoLast
    /\ pending = NoPending
    /\ seen = "none"
    /\ dIn \in PeakInputs
    /\ dOut = NoResult

NextPeaks == DetectPeaks

SpecPeaks == InitPeaks /\ [][NextPeaks]_vars

StrictlyDecreasing(hs) == \A i \in 2..Len(hs) : hs[i] < hs[i - 1]

\* the call got past the no-data and insufficient-candles exits
ReachesPeakDetection(c) == c.df # <<>> /\ ~(Len(c.df) < Max2(c.min_peaks * c.order, 5))

PerfectDescent ==
    /\ dOut.passed
    /\ dOut.violations = 0
    /\ dOut.max_break = Zero
    /\ dOut.score = <<1, 1>>

\* C12 as first stated: every series that reaches peak detection and has at
\* least 3 strictly decreasing detected peak highs yields passed=true,
\* violations=0, max break 0 and score 1.0, with min_peaks 3 (monthly) as
\* with min_peaks 4 (daily, 4h).
C12_StrictDescent_AsStated ==
    (Detected /\ ReachesPeakDetection(dIn)
     /\ Len(argrelextrema(Highs(dIn.df), dIn.order)) >= 3
     /\ StrictlyDecreasing([j \in 1..Len(argrelextrema(Highs(dIn.df), dIn.order)) |->
                               dIn.df[argrelextrema(Highs(dIn.df), dIn.order)[j]].high]))
        => PerfectDescent

\* C12 (amended): every series that reaches peak detection and whose detected
\* peak highs number at least 3 and at least min_peaks, and are strictly
\* decreasing, yields passed=true, violations=0, max break 0 and score 1.0;
\* with fewer than min_peaks peaks the result is passed=false, "not enough
\* peaks".
C12_StrictDescent ==
    (Detected /\ ReachesPeakDetection(dIn)
     /\ Len(argrelextrema(Highs(dIn.df), dIn.order)) >= 3
     /\ StrictlyDecreasing([j \in 1..Len(argrelextrema(Highs(dIn.df), dIn.order)) |->
                               dIn.df[argrelextrema(Highs(dIn.df), dIn.order)[j]].high]))
        => IF Len(argrelextrema(Highs(dIn.df), dIn.order)) >= dIn.min_peaks
           THEN PerfectDescent
           ELSE ~dOut.passed /\ dOut.reason = <<"not enough peaks">>

C12_Witness ==
    /\ Detected /\ dIn.tf = "daily" /\ ReachesPeakDetection(dIn)
    /\ Len(dOut.peaks) = 4
    /\ StrictlyDecreasing(Highs(dOut.peaks))
    /\ dOut.passed /\ dOut.score = <<1, 1>>

\* C13: on every return path passed = (score >= 0.5 and descendingSteps >= 2),
\* and reason is null iff passed.
C13_PassedAndReason ==
    Detected =>
        /\ dOut.kind = "result"
        /\ dOut.passed <=> (FracLeq(Half, dOut.score)
                            /\ DescendingSteps(Highs(dOut.peaks)) >= 2)
        /\ dOut.reason = NoReason <=> dOut.passed

C13_Witness ==
    /\ Detected /\ ~dOut.passed /\ dOut.reason = <<"weak descent">>
    /\ FracLeq(Half, dOut.score)
    /\ DescendingSteps(Highs(dOut.peaks)) = 1

----------------------------------------------------------------------------
(* Volume profile: src/src/analysis/volume_profile.py *)

\* compute_volume_profile(df, bins=30, target_value_area=0.7)
BINS == 30

TARGET_VALUE_AREA == <<7, 10>>

\* float("nan")
NaN == <<>>

VolumeProfileResult(poc, vah, val, bin_edges, histogram) ==
    [kind |-> "profile", poc |-> poc, vah |-> vah, val |-> val,
     bin_edges |-> bin_edges, histogram |-> histogram]

Closes(df) == [i \in 1..Len(df) |-> df[i].close]

Volumes(df) == [i \in 1..Len(df) |-> df[i].volume]

SeqRange(s) == {s[i] : i \in 1..Len(s)}

\* np.histogram range: (min, max), widened by 0.5 to each side when min = max,
\* and (0, 1) for an empty array
HistLo(prices) ==
    IF prices = <<>> THEN <<0, 1>>
    ELSE IF SetMin(SeqRange(prices)) = SetMax(SeqRange(prices))
    THEN Norm(2 * SetMin(SeqRange(prices)) - 1, 2)
    ELSE <<SetMin(SeqRange(prices)), 1>>

HistHi(prices) ==
    IF prices = <<>> THEN <<1, 1>>
    ELSE IF SetMin(SeqRange(prices)) = SetMax(SeqRange(prices))
    THEN Norm(2 * SetMax(SeqRange(prices)) + 1, 2)
    ELSE <<SetMax(SeqRange(prices)), 1>>

\* np.linspace(lo, hi, bins + 1): edges[k], k = 1..bins+1
BinEdges(prices, bins) ==
    LET lo == HistLo(prices)
        w  == FracSub(HistHi(prices), lo)
    IN [k \in 1..(bins + 1) |-> FracAdd(lo, FracMul(w, <<k - 1, bins>>))]

\* the bin of price x: [edges[k], edges[k+1]), the last bin closed on the right
BinOf(x, edges) ==
    LET n == Len(edges) - 1 IN
    IF FracLeq(edges[n + 1], <<x, 1>>) THEN n
    ELSE CHOOSE k \in 1..n : /\ FracLeq(edges[k], <<x, 1>>)
                             /\ ~FracLeq(edges[k + 1], <<x, 1>>)

\* np.histogram(prices, bins=bins, weights=volumes)
Histogram(prices, volumes, bins) ==
    LET edges == BinEdges(prices, bins) IN
    [k \in 1..bins |->
        SumSeq([i \in 1..Len(prices) |->
                   IF BinOf(prices[i], edges) = k THEN volumes[i] ELSE 0])]

\* hist.argmax(), mutated: always the first bin
ArgMax_First(hist) == 1

\* hist.argmax(): the first index holding the maximum
ArgMax(hist) ==
    CHOOSE k \in 1..Len(hist) :
        /\ \A j \in 1..Len(hist) : hist[j] <= hist[k]
        /\ \A j \in 1..(k - 1) : hist[j] < hist[k]

\* _bin_midpoint
_bin_midpoint(edges, idx) == FracMul(FracAdd(edges[idx], edges[idx + 1]), Half)

\* the while loop of _value_area_bounds (lines 49-62): <<lower_idx, upper_idx>>;
\* included is always the run of bins left+1 .. right-1
RECURSIVE GrowValueArea(_, _, _, _, _, _)
GrowValueArea(hist, total, target, left, right, volume_accum) ==
    IF volume_accum * target[2] < target[1] * total /\ (left >= 1 \/ right <= Len(hist))
    THEN LET left_vol  == IF left >= 1 THEN hist[left] ELSE -1
             right_vol == IF right <= Len(hist) THEN hist[right] ELSE -1
         IN IF right_vol >= left_vol /\ right <= Len(hist)
            THEN GrowValueArea(hist, total, target, left, right + 1,
                               volume_accum + hist[right])
            ELSE IF left >= 1
            THEN GrowValueArea(hist, total, target, left - 1, right,
                               volume_accum + hist[left])
            ELSE <<left + 1, right - 1>>
    ELSE <<left + 1, right - 1>>

\* _value_area_bounds: <<vah, val>>
_value_area_bounds(hist, edges, poc_idx, target) ==
    LET b == GrowValueArea(hist, SumSeq(hist), target, poc_idx - 1, poc_idx + 1,
                           hist[poc_idx])
    IN <<edges[b[2] + 1], edges[b[1]]>>

\* line 21, mutated: the early exit is never taken
NoVolume_Never(df) == FALSE

\* line 21: df.empty or df["volume"].sum() == 0
NoVolume(df) == df = <<>> \/ SumSeq(Volumes(df)) = 0

\* lines 19-35
compute_volume_profile(df, bins, target_value_area) ==
    IF NoVolume(df)
    THEN VolumeProfileResult(NaN, NaN, NaN, <<>>, <<>>)
    ELSE LET edges == BinEdges(Closes(df), bins)
             hist  == Histogram(Closes(df), Volumes(df), bins)
         IN IF SumSeq(hist) = 0
            THEN VolumeProfileResult(NaN, NaN, NaN, edges, hist)
            ELSE LET poc_idx == ArgMax(hist)
                     va      == _value_area_bounds(hist, edges, poc_idx, target_value_area)
                 IN VolumeProfileResult(_bin_midpoint(edges, poc_idx), va[1], va[2],
                                        edges, hist)

\* a profiled frame has at most this many rows
MaxRows == 3

CloseVals == {10, 11, 40}

VolVals == {0, 1, 3}

Candle(t, c, v) == [time |-> t, high |-> c, close |-> c, volume |-> v]

ProfileFrames ==
    UNION {{[i \in 1..n |-> Candle(i * MinutesPerDay, cs[i], vs[i])] :
              cs \in [1..n -> CloseVals], vs \in [1..n -> VolVals]} : n \in 0..MaxRows}

ProfileInputs == {[df |-> df] : df \in ProfileFrames}

Profile ==
    /\ dOut.kind = "none"
    /\ dOut' = compute_volume_profile(dIn.df, BINS, TARGET_VALUE_AREA)
    /\ UNCHANGED <<fetchVars, dIn>>

InitProfile ==
    /\ tf = "monthly"
    /\ now = Start
    /\ cacheFile = NoFile
    /\ state = [k \in TFs |-> NoInt]
    /\ last = NoLast
    /\ pending = NoPending
    /\ seen = "none"
    /\ dIn \in ProfileInputs
    /\ dOut = NoResult

NextProfile == Profile

SpecProfile == InitProfile /\ [][NextProfile]_vars

\* C14: for every non-empty series with non-zero total volume the histogram
\* bins sum to the total volume, the point-of-control bin holds the maximum
\* volume of all bins, and val <= POC price <= vah.
C14_ProfileInvariants ==
    (Detected /\ dIn.df # <<>> /\ SumSeq(Volumes(dIn.df)) # 0) =>
        /\ dOut.poc # NaN
        /\ Len(dOut.histogram) = BINS
        /\ SumSeq(dOut.histogram) = SumSeq(Volumes(dIn.df))
        /\ \E k \in 1..BINS :
              /\ _bin_midpoint(dOut.bin_edges, k) = dOut.poc
              /\ \A j \in 1..BINS : dOut.histogram[j] <= dOut.histogram[k]
        /\ FracLeq(dOut.val, dOut.poc)
        /\ FracLeq(dOut.poc, dOut.vah)

\* a profile whose point of control is not the first bin and whose value area
\* grew beyond the point-of-control bin
C14_Witness ==
    /\ Detected /\ dIn.df # <<>> /\ SumSeq(Volumes(dIn.df)) # 0
    /\ dOut.poc # NaN
    /\ _bin_midpoint(dOut.bin_edges, 1) # dOut.poc
    /\ \E k \in 1..BINS :
          /\ _bin_midpoint(dOut.bin_edges, k) = dOut.poc
          /\ dOut.val # dOut.bin_edges[k]

----------------------------------------------------------------------------
(* The three analyses of one frame, side by side *)

IsRulesCall(c) == "ind" \in DOMAIN c

IsPeaksCall(c) == "min_peaks" \in DOMAIN c

IsProfileCall(c) == ~IsRulesCall(c) /\ ~IsPeaksCall(c)

InitAnalysis ==
    /\ tf = "monthly"
    /\ now = Start
    /\ cacheFile = NoFile
    /\ state = [k \in TFs |-> NoInt]
    /\ last = NoLast
    /\ pending = NoPending
    /\ seen = "none"
    /\ dIn \in DetectInputs \cup PeakInputs \cup ProfileInputs
    /\ dOut = NoResult

NextAnalysis ==
    \/ IsRulesCall(dIn) /\ Detect
    \/ IsPeaksCall(dIn) /\ DetectPeaks
    \/ IsProfileCall(dIn) /\ Profile

SpecAnalysis == InitAnalysis /\ [][NextAnalysis]_vars

\* C15: an empty series yields, from both detector variants and for every
\* timeframe name, passed=false, score 0 and a non-null reason, and from the
\* volume profile NaN poc, vah, val and an empty histogram; a non-empty series
\* with zero total volume also yields the all-NaN profile.
C15_EmptySeries ==
    Detected =>
        /\ (IsRulesCall(dIn) /\ dIn.df = <<>>) =>
              (dOut.kind = "result" /\ ~dOut.passed /\ dOut.score = 0
               /\ dOut.reason # NoReason)
        /\ (IsPeaksCall(dIn) /\ dIn.df = <<>>) =>
              (dOut.kind = "result" /\ ~dOut.passed /\ dOut.score = Zero
               /\ dOut.reason # NoReason)
        /\ (IsProfileCall(dIn) /\ dIn.df = <<>>) =>
              (dOut.kind = "profile" /\ dOut.poc = NaN /\ dOut.vah = NaN /\ dOut.val = NaN
               /\ dOut.histogram = <<>>)
        /\ (IsProfileCall(dIn) /\ dIn.df # <<>> /\ SumSeq(Volumes(dIn.df)) = 0) =>
              (dOut.kind = "profile" /\ dOut.poc = NaN /\ dOut.vah = NaN /\ dOut.val = NaN)

C15_Witness ==
    /\ Detected /\ IsProfileCall(dIn) /\ dIn.df = <<>>
    /\ dOut.kind = "profile" /\ dOut.poc = NaN /\ dOut.histogram = <<>>

----------------------------------------------------------------------------
(* Scorer: src/src/scoring/coin_ranker.py *)

\* settings.TIMEFRAME_WEIGHTS (0.4, 0.35, 0.25) and settings.SOL_BONUS (0.0)
TIMEFRAME_WEIGHTS ==
    [t \in TFs |-> CASE t = "monthly" -> <<2, 5>> [] t = "daily" -> <<7, 20>> [] t = "4h" -> <<1, 4>>]

SOL_BONUS == Zero

\* line 66: 0.6, 0.25, 0.15
W_PATTERN == <<3, 5>>

W_VOLUME == <<1, 4>>

W_POC == <<3, 20>>

\* TIMEFRAME_WEIGHTS.get(name, 0), mutated: an unknown name weighs 1
WeightOf_DefaultOne(weights, name) ==
    IF name \in DOMAIN weights THEN weights[name] ELSE <<1, 1>>

\* TIMEFRAME_WEIGHTS.get(name, 0)
WeightOf(weights, name) == IF name \in DOMAIN weights THEN weights[name] ELSE Zero

TimeframeOutcome(name, pattern_score, vol, poc) ==
    [name |-> name, pattern_score |-> pattern_score, volume_decline_score |-> vol,
     poc_distance_score |-> poc]

\* line 66
TfScore(o) ==
    FracAdd(FracAdd(FracMul(W_PATTERN, o.pattern_score),
                    FracMul(W_VOLUME, o.volume_decline_score)),
            FracMul(W_POC, o.poc_distance_score))

\* lines 62-67: the loop, from the running score after the first i-1 outcomes
RECURSIVE ScoreLoop(_, _, _, _)
ScoreLoop(timeframes, weights, i, score) ==
    IF i > Len(timeframes) THEN score
    ELSE ScoreLoop(timeframes, weights, i + 1,
                   FracAdd(score, FracMul(WeightOf(weights, timeframes[i].name),
                                          TfScore(timeframes[i]))))

\* aggregate_score under the settings (weights, bonus)
aggregate_score(timeframes, is_solana, weights, bonus) ==
    LET score == ScoreLoop(timeframes, weights, 1, Zero) IN
    IF is_solana THEN FracAdd(score, bonus) ELSE score

\* a pair has at most this many outcomes
MaxOutcomes == 2

OutcomeNames == TFs \cup {"1h"}

SubScores ==
    {<<Zero, Zero, Zero>>, <<<<1, 1>>, <<1, 1>>, <<1, 1>> >>,
     <<Half, <<1, 1>>, Zero>>, <<<<1, 1>>, Zero, <<1, 1>> >>}

Outcomes == {TimeframeOutcome(n, s[1], s[2], s[3]) : n \in OutcomeNames, s \in SubScores}

\* the configured weights, and a configuration with a single weight of 1.0
WeightSettings == {TIMEFRAME_WEIGHTS, [t \in {"monthly"} |-> <<1, 1>>]}

BonusSettings == {SOL_BONUS, <<1, 1>>}

ScoreInputs ==
    {[timeframes |-> ts, is_solana |-> f, weights |-> w, bonus |-> b] :
        ts \in UNION {[1..n -> Outcomes] : n \in 0..MaxOutcomes},
        f \in BOOLEAN, w \in WeightSettings, b \in BonusSettings}

Aggregate ==
    /\ dOut.kind = "none"
    /\ dOut' = [kind |-> "score",
                score |-> aggregate_score(dIn.timeframes, dIn.is_solana, dIn.weights,
                                          dIn.bonus)]
    /\ UNCHANGED <<fetchVars, dIn>>

InitScore ==
    /\ tf = "monthly"
    /\ now = Start
    /\ cacheFile = NoFile
    /\ state = [k \in TFs |-> NoInt]
    /\ last = NoLast
    /\ pending = NoPending
    /\ seen = "none"
    /\ dIn \in ScoreInputs
    /\ dOut = NoResult

NextScore == Aggregate

SpecScore == InitScore /\ [][NextScore]_vars

\* the weighted composite of the outcomes i..Len(ts), a name without a
\* configured weight counting 0
RECURSIVE WeightedSum(_, _, _)
WeightedSum(ts, weights, i) ==
    IF i > Len(ts) THEN Zero
    ELSE FracAdd(
           IF ts[i].name \in DOMAIN weights
           THEN FracMul(weights[ts[i].name],
                        FracSum(<<FracMul(<<6, 10>>, ts[i].pattern_score),
                                  FracMul(<<25, 100>>, ts[i].volume_decline_score),
                                  FracMul(<<15, 100>>, ts[i].poc_distance_score)>>))
           ELSE Zero,
           WeightedSum(ts, weights, i + 1))

\* C16: aggregate = sum of weight(timeframe) * (0.6 pattern + 0.25 volume
\* decline + 0.15 POC proximity), an unweighted name contributing 0, plus the
\* bonus only when the flag is set; with bonus 0 the flag changes nothing; one
\* timeframe of weight 1.0 with all sub-scores 1.0 yields exactly 1.0.
C16_Aggregate ==
    Detected =>
        /\ dOut.score = FracAdd(WeightedSum(dIn.timeframes, dIn.weights, 1),
                                IF dIn.is_solana THEN dIn.bonus ELSE Zero)
        /\ dIn.bonus = Zero =>
              dOut.score = aggregate_score(dIn.timeframes, ~dIn.is_solana, dIn.weights,
                                           dIn.bonus)
        /\ (/\ Len(dIn.timeframes) = 1
            /\ WeightOf(dIn.weights, dIn.timeframes[1].name) = <<1, 1>>
            /\ dIn.timeframes[1].pattern_score = <<1, 1>>
            /\ dIn.timeframes[1].volume_decline_score = <<1, 1>>
            /\ dIn.timeframes[1].poc_distance_score = <<1, 1>>
            /\ (dIn.is_solana => dIn.bonus = Zero))
            => dOut.score = <<1, 1>>

C16_Witness ==
    /\ Detected /\ dOut.kind = "score"
    /\ Len(dIn.timeframes) = 2
    /\ dIn.weights = TIMEFRAME_WEIGHTS /\ dIn.bonus = SOL_BONUS /\ dIn.is_solana
    /\ dIn.timeframes[1].name = "1h" /\ dIn.timeframes[1].pattern_score = <<1, 1>>
    /\ dIn.timeframes[2].name = "daily" /\ dIn.timeframes[2].pattern_score = <<1, 1>>
    /\ dOut.score = <<7, 20>>

----------------------------------------------------------------------------
(* Per-pair analysis: src/main.py analyze_pair, coin_ranker.score_timeframe *)

\* settings.PATTERN_DETECTOR_VERSION (2 as configured; 1 selects variant A)
DetectorVersions == {1, 2}

\* np.clip(x, 0.0, 1.0)
Clip01(x) == FracMax(Zero, FracMin(x, <<1, 1>>))

MeanOf(s) == Norm(SumSeq(s), Len(s))

\* (mutation: the ten-candle floor of line 29 is dropped)
volume_decline_score_NoFloor(df) ==
    IF df = <<>> THEN Zero
    ELSE LET split  == Max2(Len(df) \div 4, 1)
             early  == MeanOf(SubSeq(Volumes(df), 1, split))
             recent == MeanOf(SubSeq(Volumes(df), Len(df) - split + 1, Len(df)))
         IN IF FracLeq(early, Zero) THEN Zero
            ELSE Clip01(Norm(FracSub(early, recent)[1] * early[2],
                             FracSub(early, recent)[2] * early[1]))

\* coin_ranker.volume_decline_score
volume_decline_score(df) ==
    IF Len(df) < 10 THEN Zero
    ELSE LET split  == Max2(Len(df) \div 4, 1)
             early  == MeanOf(SubSeq(Volumes(df), 1, split))
             recent == MeanOf(SubSeq(Volumes(df), Len(df) - split + 1, Len(df)))
         IN IF FracLeq(early, Zero) THEN Zero
            ELSE Clip01(Norm(FracSub(early, recent)[1] * early[2],
                             FracSub(early, recent)[2] * early[1]))

\* coin_ranker.poc_distance_score; df is not empty (iloc[-1] raises otherwise)
poc_distance_score(df, vp) ==
    LET last_close == df[Len(df)].close IN
    IF vp.poc = NaN \/ last_close = 0 THEN Zero
    ELSE LET diff == FracSub(<<last_close, 1>>, vp.poc)
             dist == Norm(Abs(diff[1]), diff[2] * last_close)
         IN Clip01(FracSub(<<1, 1>>, dist))

\* PatternResult.score as a float: variant B yields float(passed)
PatternScore(pattern, version) ==
    IF version = 2 THEN <<pattern.score, 1>> ELSE pattern.score

StepRaised(exc) == [raised |-> exc]

\* one iteration of the loop of analyze_pair (lines 32-41) for timeframe t:
\* the value fetch_ohlc returned (or its exception), the detector selected by
\* version, the volume profile and score_timeframe
AnalyzeStep(pair, t, clock, version) ==
    IF pair.fetch[t].raised THEN StepRaised("FetchError")
    ELSE
    LET df      == pair.fetch[t].df
        pattern == IF version = 2
                   THEN detect_descending_rules(df, t, pair.ind[t], clock)
                   ELSE detect_lower_highs_scored(df, PATTERN_MIN_PEAKS[t], PATTERN_ORDER[t])
        vp      == compute_volume_profile(df, BINS, TARGET_VALUE_AREA)
    IN IF pattern.kind # "result" THEN StepRaised(pattern.kind)
       ELSE IF df = <<>> THEN StepRaised("IndexError")
       ELSE [raised  |-> "none",
             pattern |-> pattern,
             outcome |-> TimeframeOutcome(t, PatternScore(pattern, version),
                                          volume_decline_score(df),
                                          poc_distance_score(df, vp))]

RECURSIVE AnalyzeLoop(_, _, _, _, _, _)
AnalyzeLoop(pair, timeframes, clock, version, i, steps) ==
    IF i > Len(timeframes)
    THEN [kind |-> "pair", pair |-> pair.altname,
          score |-> aggregate_score([j \in 1..Len(steps) |-> steps[j].outcome],
                                    pair.is_solana, TIMEFRAME_WEIGHTS, SOL_BONUS),
          patterns |-> [j \in 1..Len(steps) |-> steps[j].pattern]]
    ELSE LET s == AnalyzeStep(pair, timeframes[i], clock, version) IN
         IF s.raised # "none"
         THEN [kind |-> s.raised, pair |-> pair.altname, score |-> Zero, patterns |-> <<>>]
         ELSE AnalyzeLoop(pair, timeframes, clock, version, i + 1, Append(steps, s))

\* analyze_pair(client, pair, refresh, timeframes) at wall clock `clock`
analyze_pair(pair, timeframes, clock, version) ==
    AnalyzeLoop(pair, timeframes, clock, version, 1, <<>>)

----------------------------------------------------------------------------
(* Two analyses of one pair over the same cached frame and indicator file *)

CandleFrame(times, highs) ==
    [i \in 1..Len(times) |-> Candle(times[i], highs[i], 1)]

\* cached frames for timeframe t, some with a candle exactly on a window
\* boundary of the wall clock `clock`
CachedFrames(t, clock) ==
    CASE t = "daily" ->
           {SelectSeq(CandleFrame(<<clock - 20 * MinutesPerDay,
                                    clock - PAT2_DAILY_RECENT_DAYS * MinutesPerDay,
                                    clock - 3 * MinutesPerDay>>, p),
                      LAMBDA r : r.high # 0) : p \in [1..3 -> {0, 1}]}
      [] t = "4h" ->
           {CandleFrame(<<clock - PAT2_4H_LOOKBACK_DAYS * MinutesPerDay>>, <<hb>>)
              \o CandleFrame([i \in 1..PAT2_4H_RECENT_BARS |->
                                 clock - (PAT2_4H_RECENT_BARS - i) * 240],
                             [i \in 1..PAT2_4H_RECENT_BARS |-> hr]) :
              hb \in HighVals, hr \in HighVals}
      [] t = "monthly" ->
           UNION {{CandleFrame([i \in 1..n |-> clock - (n - i) * DaysPerMonth * MinutesPerDay], hs) :
              hs \in [1..n -> HighVals]} : n \in 1..MaxMonths}

TwoCols(n50, n200) ==
    [c \in {"ema_50", "ema_200"} |->
        IF c = "ema_50" THEN <<n50, "down">> ELSE <<n200, "down">>]

CachedIndicators(t, clock) ==
    CASE t = "daily" ->
           {NoIndicators("absent"),
            IndFrame(OneCol("ema_50", LAG_EMA_50 + 1, "down"), LAG_EMA_50 + 1, TRUE, clock,
                     MinutesPerDay),
            IndFrame(TwoCols(LAG_EMA_50 + 1, LAG_EMA_200), LAG_EMA_200 + 1, TRUE, clock,
                     MinutesPerDay),
            IndFrame(TwoCols(LAG_EMA_50 + 1, LAG_EMA_200 + 1), LAG_EMA_200 + 1, TRUE, clock,
                     MinutesPerDay)}
      [] t = "4h" ->
           {NoIndicators("absent"),
            IndFrame(OneCol("ema_7", LAG_EMA_7 + 1, "down"), LAG_EMA_7 + 1, FALSE, clock, 240),
            IndFrame(OneCol("ema_7", LAG_EMA_7 + 1, "down"), LAG_EMA_7 + 1, TRUE, clock, 240),
            IndFrame(OneCol("ema_7", LAG_EMA_7 + 1, "down"), LAG_EMA_7 + 1, TRUE, clock,
                     MinutesPerDay)}
      [] t = "monthly" ->
           {NoIndicators("absent"),
            IndFrame(OneCol("ema_12", LAG_EMA_12 + 1, "down"), LAG_EMA_12 + 1, TRUE, clock,
                     MinutesPerDay)}

PairMeta(altname, is_solana, t, fetched, ind) ==
    [altname |-> altname, is_solana |-> is_solana,
     fetch |-> [x \in {t} |-> fetched], ind |-> [x \in {t} |-> ind]]

Fetched(df) == [raised |-> FALSE, df |-> df]

FetchRaised == [raised |-> TRUE, df |-> <<>>]

RerunInputs ==
    UNION {{[tf |-> t, version |-> v, pair |-> PairMeta("P1", s, t, Fetched(df), ind)] :
              v \in DetectorVersions, s \in BOOLEAN,
              df \in CachedFrames(t, Start), ind \in CachedIndicators(t, Start)} :
             t \in TFs}

\* one run of analyze_pair at the current wall clock
AnalyzeRun ==
    /\ dOut.kind = "none" \/ (dOut.kind = "runs" /\ Len(dOut.runs) < 2)
    /\ dOut' = [kind |-> "runs",
                runs |-> (IF dOut.kind = "none" THEN <<>> ELSE dOut.runs)
                           \o <<analyze_pair(dIn.pair, <<dIn.tf>>, now, dIn.version)>>]
    /\ UNCHANGED <<fetchVars, dIn>>

InitRerun ==
    /\ dIn \in RerunInputs
    /\ tf = dIn.tf
    /\ now = Start
    /\ cacheFile = NoFile
    /\ state = [k \in TFs |-> NoInt]
    /\ last = NoLast
    /\ pending = NoPending
    /\ seen = "none"
    /\ dOut = NoResult

NextRerun ==
    \/ AnalyzeRun
    \/ Tick /\ UNCHANGED detVars

SpecRerun == InitRerun /\ [][NextRerun]_vars

\* C17: two runs of the per-pair analysis over the same cached series and the
\* same indicator data give the same PatternResult per timeframe and the same
\* aggregate score, whatever the wall clock of each run, under either detector.
C17_Deterministic ==
    (dOut.kind = "runs" /\ Len(dOut.runs) = 2) => dOut.runs[1] = dOut.runs[2]

----------------------------------------------------------------------------
(* The run loop: src/main.py run, lines 84-95 *)

\* a run evaluates at most this many pairs
MaxPairs == 3

\* settings.PATTERN_DETECTOR_VERSION
PATTERN_DETECTOR_VERSION == 2

\* the default of --timeframes: main.py line 117
RunTimeframes == <<"monthly", "daily", "4h">>

FrameNear == CandleFrame(<<Start - MinutesPerDay, Start>>, <<10, 10>>)

FrameFar == CandleFrame(<<Start - MinutesPerDay, Start>>, <<10, 40>>)

\* what fetch_ohlc does for the three timeframes of a pair
FetchBehaviours ==
    {<<Fetched(FrameNear), Fetched(FrameNear), Fetched(FrameNear)>>,
     <<Fetched(FrameFar), Fetched(FrameNear), Fetched(FrameNear)>>,
     <<FetchRaised, Fetched(FrameNear), Fetched(FrameNear)>>,
     <<Fetched(FrameNear), FetchRaised, Fetched(FrameNear)>>,
     <<Fetched(FrameNear), Fetched(FrameNear), Fetched(<<>>)>>}

RunPairMeta(i, b) ==
    [altname |-> i, is_solana |-> FALSE,
     fetch |-> [t \in TFs |-> CASE t = "monthly" -> b[1] [] t = "daily" -> b[2]
                                 [] OTHER -> b[3]],
     ind |-> [t \in TFs |-> NoIndicators("absent")]]

\* analyze_pair is a function of the pair's fetched frames, its indicator files
\* and the clock: line 87, tabulated per pair
Analysed ==
    [i \in 1..MaxPairs, b \in FetchBehaviours |->
        analyze_pair(RunPairMeta(i, b), RunTimeframes, Start, PATTERN_DETECTOR_VERSION)]

RunInputs ==
    UNION {{[pairs    |-> [i \in 1..n |-> RunPairMeta(i, bs[i])],
             analysed |-> [i \in 1..n |-> Analysed[i, bs[i]]]] :
              bs \in [1..n -> FetchBehaviours]} : n \in 0..MaxPairs}

\* line 89: "except Exception" catches every exception analyze_pair can raise
\* here (RuntimeError from the client, KeyError, IndexError)
Caught(exc) == exc \in {"FetchError", "KeyError", "IndexError"}

\* results.sort(key=lambda r: r.score, reverse=True), mutated: no sort
SortByScore_None(results) == results

RECURSIVE SortByScore(_)
\* results.sort(key=lambda r: r.score, reverse=True): stable, descending
SortByScore(results) ==
    IF results = <<>> THEN <<>>
    ELSE LET rest == SortByScore(SubSeq(results, 1, Len(results) - 1))
             r    == results[Len(results)]
             k    == Cardinality({j \in 1..Len(rest) : FracLeq(r.score, rest[j].score)})
         IN SubSeq(rest, 1, k) \o <<r>> \o SubSeq(rest, k + 1, Len(rest))

\* lines 84-85
RunStart ==
    /\ "pairs" \in DOMAIN dIn
    /\ dOut.kind = "none"
    /\ dOut' = [kind |-> "run", i |-> 1, attempted |-> <<>>, results |-> <<>>,
                done |-> FALSE]
    /\ UNCHANGED <<fetchVars, dIn>>

\* lines 86-93: one iteration of the loop over pairs
RunPair ==
    /\ dOut.kind = "run" /\ ~dOut.done /\ dOut.i <= Len(dIn.pairs)
    /\ LET pair == dIn.pairs[dOut.i]
           res  == dIn.analysed[dOut.i]
       IN dOut' = IF res.kind = "pair" \/ Caught(res.kind)
                  THEN [dOut EXCEPT !.i = @ + 1,
                                    !.attempted = Append(@, pair.altname),
                                    !.results = IF res.kind = "pair" THEN Append(@, res)
                                                ELSE @]
                  ELSE [dOut EXCEPT !.kind = "aborted",
                                    !.attempted = Append(@, pair.altname)]
    /\ UNCHANGED <<fetchVars, dIn>>

\* line 95, and the return of the sorted list
RunFinish ==
    /\ dOut.kind = "run" /\ ~dOut.done /\ dOut.i > Len(dIn.pairs)
    /\ dOut' = [dOut EXCEPT !.results = SortByScore(@), !.done = TRUE]
    /\ UNCHANGED <<fetchVars, dIn>>

InitRun ==
    /\ tf = "monthly"
    /\ now = Start
    /\ cacheFile = NoFile
    /\ state = [k \in TFs |-> NoInt]
    /\ last = NoLast
    /\ pending = NoPending
    /\ seen = "none"
    /\ dIn \in RunInputs
    /\ dOut = NoResult

NextRun == RunStart \/ RunPair \/ RunFinish

SpecRun == InitRun /\ [][NextRun]_vars

\* run is sequential code: each statement is eventually executed
SpecRunFair == SpecRun /\ WF_vars(NextRun)

\* the analysis of the x-th pair raises at some timeframe step
PairRaises(x) == dIn.analysed[x].kind # "pair"

\* C18: whatever subset of pairs raises at whatever timeframe step, every pair
\* is attempted exactly once in list order, the run completes, the results hold
\* exactly the pairs that did not raise, ordered by descending aggregate score.
C18_FailuresIsolated ==
    /\ <>(dOut.kind = "run" /\ dOut.done)
    /\ [](dOut.kind = "run" =>
        /\ dOut.attempted = [j \in 1..(dOut.i - 1) |-> dIn.pairs[j].altname]
        /\ dOut.done =>
              /\ Len(dOut.attempted) = Len(dIn.pairs)
              /\ {dOut.results[k].pair : k \in 1..Len(dOut.results)}
                    = {dIn.pairs[j].altname : j \in {x \in 1..Len(dIn.pairs) :
                                                       ~PairRaises(x)}}
              /\ Len(dOut.results)
                    = Cardinality({x \in 1..Len(dIn.pairs) : ~PairRaises(x)})
              /\ \A k \in 1..(Len(dOut.results) - 1) :
                    FracLeq(dOut.results[k + 1].score, dOut.results[k].score))

\* a finished run over three pairs: the first scores lowest, the second raises
\* on its second timeframe, the third scores highest and is listed first
C18_Witness ==
    /\ dOut.kind = "run" /\ dOut.done
    /\ Len(dIn.pairs) = 3
    /\ PairRaises(2) /\ ~dIn.pairs[2].fetch["monthly"].raised
    /\ Len(dOut.results) = 2
    /\ dOut.results[1].pair = 3 /\ dOut.results[2].pair = 1
    /\ dOut.results[1].score # dOut.results[2].score


----------------------------------------------------------------------------
(* Workers fetching distinct pairs side by side: data_fetcher.py            *)
(* _load_state (123-129), _save_state (132-137), fetch_ohlc (165-210).      *)
(* Worker w fetches pair w; the cache file is per (pair, timeframe), the    *)
(* state file is shared.                                                     *)

\* number of workers, one pair each
MaxWorkers == 2

Workers == 1..MaxWorkers

ParTFs == {"daily", "4h"}

\* _state_key(pair, tf) for the pairs of the workers
PairKey(pair, t) == <<pair, _state_key(t)>>

StateKeys == {PairKey(p, t) : p \in Workers, t \in ParTFs}

\* the state file of a fresh installation: _load_state returns {}
EmptyState == [k \in StateKeys |-> NoInt]

\* what client.get_ohlc does for a worker: raise, no candles, one candle
ParResponses(t) ==
    {UpstreamError, [error |-> FALSE, raw |-> <<>>],
     [error |-> FALSE, raw |-> <<RawCandle(t, 2, 1)>>]}

ParInputs ==
    {[kind |-> "par", tfs |-> ts, ups |-> us] :
        ts \in [Workers -> ParTFs],
        us \in [Workers -> UNION {ParResponses(t) : t \in ParTFs}]}

ParCall(c) ==
    /\ c.kind = "par"
    /\ \A w \in Workers : c.ups[w] \in ParResponses(c.tfs[w])

\* lines 165-204 of worker w: the plan of the call on its own cache file
ParPlan(w) == FetchPlan(dIn.tfs[w], dOut.files[w], now, FALSE, dIn.ups[w])

\* line 167: state = _load_state()
WLoad(w) ==
    /\ dOut.kind = "par"
    /\ dOut.pc[w] = "start"
    /\ dOut' = [dOut EXCEPT !.pc[w] = "loaded", !.local[w] = dOut.stateFile]
    /\ UNCHANGED <<fetchVars, dIn>>

\* lines 168-207: early returns, the upstream call, the cache file write and
\* the update of the worker's own copy of the state
WFetch(w) ==
    /\ dOut.kind = "par"
    /\ dOut.pc[w] = "loaded"
    /\ LET plan == ParPlan(w) IN
       dOut' = IF plan.writes
               THEN [dOut EXCEPT
                       !.files[w] = [exists |-> TRUE, readable |-> TRUE, mtime |-> now,
                                     rows |-> plan.ret],
                       !.local[w] = StateAfter(@, PairKey(w, dIn.tfs[w]), plan.ret),
                       !.pc[w] = IF plan.ret # <<>> THEN "save" ELSE "done"]
               ELSE [dOut EXCEPT !.pc[w] = "done"]
    /\ UNCHANGED <<fetchVars, dIn>>

\* line 209: _save_state(state) writes the worker's whole copy
WSave(w) ==
    /\ dOut.kind = "par"
    /\ dOut.pc[w] = "save"
    /\ dOut' = [dOut EXCEPT !.stateFile = dOut.local[w], !.pc[w] = "done"]
    /\ UNCHANGED <<fetchVars, dIn>>

InitParallel ==
    /\ tf = "daily" /\ now = Start
    /\ cacheFile = NoFile /\ state = [t \in TFs |-> NoInt]
    /\ last = NoLast /\ pending = NoPending /\ seen = "none"
    /\ dIn \in {c \in ParInputs : ParCall(c)}
    /\ dOut = [kind |-> "par",
               pc |-> [w \in Workers |-> "start"],
               local |-> [w \in Workers |-> EmptyState],
               stateFile |-> EmptyState,
               files |-> [w \in Workers |-> NoFile]]

NextParallel == \E w \in Workers : WLoad(w) \/ WFetch(w) \/ WSave(w)

SpecParallel == InitParallel /\ [][NextParallel]_vars

\* fetch_ohlc of worker w run alone from state file st: the state file after
SequentialStep(st, w) ==
    LET plan == FetchPlan(dIn.tfs[w], NoFile, now, FALSE, dIn.ups[w]) IN
    IF plan.writes THEN StateAfter(st, PairKey(w, dIn.tfs[w]), plan.ret) ELSE st

\* the workers' fetches run one after the other, in worker order
RECURSIVE SequentialState(_)
SequentialState(n) ==
    IF n = 0 THEN EmptyState ELSE SequentialStep(SequentialState(n - 1), n)

SequentialRows(w) ==
    LET plan == FetchPlan(dIn.tfs[w], NoFile, now, FALSE, dIn.ups[w]) IN
    IF plan.writes THEN plan.ret ELSE <<>>

AllDone == dOut.kind = "par" /\ \A w \in Workers : dOut.pc[w] = "done"

\* C19: when interleaved workers for distinct pairs have finished, every cache
\* file and every state file entry is what running them one after the other
\* leaves.
C19_PairsIndependent ==
    AllDone =>
        /\ \A w \in Workers : dOut.files[w].rows = SequentialRows(w)
        /\ dOut.stateFile = SequentialState(MaxWorkers)


----------------------------------------------------------------------------
(* The merge of lines 195-198 on colliding timestamps *)

\* the call merged the upstream response into a non-empty cached series
Merged(l) == StalePath(l) /\ Stored(l) /\ l.prior.rows # <<>>

\* C20: after a merge, every timestamp present both in the prior cached series
\* and in the upstream response is stored with the upstream row.
C20_UpstreamRowWins ==
    (Merged(last) /\ TIMEFRAMES[tf].resample_rule = None) =>
        \A i \in 1..Len(last.resp) :
            last.resp[i].time \in Times(last.prior.rows) =>
                \E j \in 1..Len(last.ret) : last.ret[j] = last.resp[i]


----------------------------------------------------------------------------
(* The since cursor of lines 174-184 *)

\* the call passed a cursor to the candle source while a non-empty cached
\* series was read
IncrementalCall(l) ==
    StalePath(l) /\ l.called /\ l.prior.readable /\ l.prior.rows # <<>>

\* latest cached timestamp minus one interval
OneIntervalBack(l) == MaxTime(l.prior.rows) - TIMEFRAMES[tf].interval_minutes

\* C21: on an incremental call the cursor is the latest cached timestamp minus
\* one interval when the horizon is unbounded, and the later of the horizon
\* bound and that value when a horizon is configured.
C21_SinceCursor ==
    IncrementalCall(last) =>
        last.since = Some(IF last.horizon = NoInt
                          THEN OneIntervalBack(last)
                          ELSE Max2(last.horizon[1], OneIntervalBack(last)))


----------------------------------------------------------------------------
(* The order of the stored series: lines 185-204 *)

AscendingUnique(df) == \A i \in 1..(Len(df) - 1) : df[i].time < df[i + 1].time

\* C22: the series a fetch stores is strictly ascending by timestamp (sorted,
\* no timestamp twice), whatever the call and the upstream response.
C22_StoredAscending ==
    (IsFetch /\ Stored(last)) => /\ cacheFile.rows = last.ret \/ ~cacheFile.readable
                                 /\ AscendingUnique(last.ret)


----------------------------------------------------------------------------
(* The variant-A score: pattern_detector.py lines 39-62 *)

\* the call got past the three early exits and scored its peaks
Scored == Detected /\ dOut.kind = "result" /\ dOut.reason \in {NoReason, <<"weak descent">>}

\* the upward breaks of the violating steps, each as a fraction of the prior peak
BreakFractions(hs) == {Norm(hs[i] - hs[i - 1], hs[i - 1]) : i \in BreakSteps(hs)}

LargestBreak(hs) ==
    IF BreakFractions(hs) = {} THEN Zero
    ELSE CHOOSE b \in BreakFractions(hs) : \A c \in BreakFractions(hs) : FracLeq(c, b)

\* C23: descending + violations = steps; baseScore = descending / steps, 0 when
\* there is only one step; penalty = min(0.5 x largest break, 0.5); score =
\* max(baseScore - penalty, 0), halved when the slope of the peak highs is >= 0;
\* the score lies in [0, 1].
C23_ScoreFormula ==
    Scored =>
        LET hs      == Highs(dOut.peaks)
            steps   == Len(hs) - 1
            desc    == DescendingSteps(hs)
            base    == IF steps <= 1 THEN Zero ELSE Norm(desc, steps)
            penalty == FracMin(FracMul(Half, LargestBreak(hs)), Half)
            raw     == FracMax(FracSub(base, penalty), Zero)
        IN /\ desc + dOut.violations = steps
           /\ dOut.max_break = LargestBreak(hs)
           /\ dOut.score = IF FracLeq(Zero, dOut.slope) THEN FracMul(raw, Half) ELSE raw
           /\ FracLeq(Zero, dOut.score) /\ FracLeq(dOut.score, <<1, 1>>)


----------------------------------------------------------------------------
(* The value-area loop, statement by statement: volume_profile.py           *)
(* _value_area_bounds, lines 42-66, as called at line 33.  Bins are         *)
(* numbered from 1.                                                          *)

\* compute_volume_profile returns at line 22 or 30 without reaching line 33
NoAreaCall == [hist |-> <<>>, edges |-> <<>>, poc_idx |-> 0, target |-> TARGET_VALUE_AREA]

\* the arguments compute_volume_profile passes at line 33 for frame df
\* (lines 21-32)
AreaCall(df) ==
    IF NoVolume(df) THEN NoAreaCall
    ELSE LET hist == Histogram(Closes(df), Volumes(df), BINS) IN
         IF SumSeq(hist) = 0 THEN NoAreaCall
         ELSE [hist |-> hist, edges |-> BinEdges(Closes(df), BINS),
               poc_idx |-> ArgMax(hist), target |-> TARGET_VALUE_AREA]

\* a frame whose value area is followed has at most this many rows
MaxAreaRows == 3

\* the histogram does not depend on the order of the rows: closes ascending
AscendingCloses(n) ==
    {cs \in [1..n -> CloseVals] : \A i \in 1..(n - 1) : cs[i] <= cs[i + 1]}

AreaFrames ==
    UNION {{[i \in 1..n |-> Candle(i * MinutesPerDay, cs[i], vs[i])] :
              cs \in AscendingCloses(n), vs \in [1..n -> VolVals]} : n \in 0..MaxAreaRows}

AreaInputs == {AreaCall(df) : df \in AreaFrames} \ {NoAreaCall}

\* the condition of the while statement, line 49
LoopCondition(d) ==
    /\ d.volume_accum * d.target[2] < d.target[1] * d.total
    /\ (d.left >= 1 \/ d.right <= Len(d.hist))

\* lines 53-62, mutated: equal volumes go to the left
ValueAreaStep_LeftOnTie(hist, left, right) ==
    LET left_vol  == IF left >= 1 THEN hist[left] ELSE -1
        right_vol == IF right <= Len(hist) THEN hist[right] ELSE -1
    IN IF right_vol > left_vol /\ right <= Len(hist) THEN "right"
       ELSE IF left >= 1 THEN "left"
       ELSE "break"

\* lines 50-62: the side the loop body extends
ValueAreaStep(hist, left, right) ==
    LET left_vol  == IF left >= 1 THEN hist[left] ELSE -1
        right_vol == IF right <= Len(hist) THEN hist[right] ELSE -1
    IN IF right_vol >= left_vol /\ right <= Len(hist) THEN "right"
       ELSE IF left >= 1 THEN "left"
       ELSE "break"

\* lines 43-47
VAStart ==
    /\ dOut.kind = "none"
    /\ dOut' = [kind |-> "area", pc |-> "loop", hist |-> dIn.hist, edges |-> dIn.edges,
                poc_idx |-> dIn.poc_idx, target |-> dIn.target,
                total |-> SumSeq(dIn.hist), included |-> {dIn.poc_idx},
                left |-> dIn.poc_idx - 1, right |-> dIn.poc_idx + 1,
                volume_accum |-> dIn.hist[dIn.poc_idx], vah |-> NaN, val |-> NaN]
    /\ UNCHANGED <<fetchVars, dIn>>

\* one pass through the loop body, lines 50-62
VAStep ==
    /\ dOut.kind = "area" /\ dOut.pc = "loop"
    /\ LoopCondition(dOut)
    /\ LET side == ValueAreaStep(dOut.hist, dOut.left, dOut.right) IN
       dOut' = CASE side = "right" ->
                      [dOut EXCEPT !.included = @ \cup {dOut.right},
                                   !.volume_accum = @ + dOut.hist[dOut.right],
                                   !.right = @ + 1]
                 [] side = "left" ->
                      [dOut EXCEPT !.included = @ \cup {dOut.left},
                                   !.volume_accum = @ + dOut.hist[dOut.left],
                                   !.left = @ - 1]
                 [] OTHER -> [dOut EXCEPT !.pc = "exit"]
    /\ UNCHANGED <<fetchVars, dIn>>

\* lines 64-66
VAReturn ==
    /\ dOut.kind = "area"
    /\ dOut.pc \in {"loop", "exit"}
    /\ dOut.pc = "loop" => ~LoopCondition(dOut)
    /\ dOut' = [dOut EXCEPT !.pc = "done",
                            !.vah = dOut.edges[SetMax(dOut.included) + 1],
                            !.val = dOut.edges[SetMin(dOut.included)]]
    /\ UNCHANGED <<fetchVars, dIn>>

InitValueArea ==
    /\ tf = "monthly"
    /\ now = Start
    /\ cacheFile = NoFile
    /\ state = [k \in TFs |-> NoInt]
    /\ last = NoLast
    /\ pending = NoPending
    /\ seen = "none"
    /\ dIn \in AreaInputs
    /\ dOut = NoResult

NextValueArea == VAStart \/ VAStep \/ VAReturn

SpecValueArea == InitValueArea /\ [][NextValueArea]_vars

\* the function runs to its return once called
SpecValueAreaFair == SpecValueArea /\ WF_vars(VAStep \/ VAReturn)

InLoop(d) == d.kind = "area" /\ d.pc = "loop"

\* the volume of the bins lo..hi
RangeVolume(hist, lo, hi) == SumSeq([k \in 1..(hi - lo + 1) |-> hist[lo + k - 1]])

\* C24: each pass adds the not-yet-included neighbour of the included range
\* with more volume, the right one on equal volumes when the right side is not
\* exhausted; the loop terminates; on return the included bins are one
\* contiguous range holding the POC bin, with at least the target fraction of
\* the total volume or with every bin; vah is the upper edge of the highest
\* included bin and val the lower edge of the lowest.
C24_ValueArea ==
    /\ [][(InLoop(dOut) /\ InLoop(dOut')) =>
            LET lo == SetMin(dOut.included)
                hi == SetMax(dOut.included)
                n  == Len(dOut.hist)
                takeRight == /\ hi < n
                             /\ (lo = 1 \/ dOut.hist[hi + 1] >= dOut.hist[lo - 1])
            IN /\ dOut.included = lo..hi
               /\ dOut'.included = dOut.included \cup {IF takeRight THEN hi + 1 ELSE lo - 1}
               /\ dOut'.included # dOut.included]_vars
    /\ (dOut.kind = "area") ~> (dOut.kind = "area" /\ dOut.pc = "done")
    /\ []((dOut.kind = "area" /\ dOut.pc = "done") =>
            LET lo == SetMin(dOut.included)
                hi == SetMax(dOut.included)
            IN /\ dOut.included = lo..hi
               /\ dOut.poc_idx \in dOut.included
               /\ \/ RangeVolume(dOut.hist, lo, hi) * dOut.target[2]
                        >= dOut.target[1] * dOut.total
                  \/ dOut.included = 1..Len(dOut.hist)
               /\ dOut.vah = dOut.edges[hi + 1]
               /\ dOut.val = dOut.edges[lo]
               /\ <<dOut.vah, dOut.val>>
                    = _value_area_bounds(dOut.hist, dOut.edges, dOut.poc_idx, dOut.target))

\* a returned value area that grew to the left of the POC bin, the left
\* neighbour holding more volume than the right one, and stopped before
\* every bin was included
C24_Witness ==
    /\ dOut.kind = "area" /\ dOut.pc = "done"
    /\ SetMin(dOut.included) < dOut.poc_idx
    /\ dOut.hist[dOut.poc_idx - 1] > dOut.hist[dOut.poc_idx + 1]
    /\ dOut.included # 1..Len(dOut.hist)


----------------------------------------------------------------------------
(* score_timeframe: src/src/scoring/coin_ranker.py lines 49-58 *)

\* df["close"].iloc[-1] (line 42) raises IndexError on an empty frame, after
\* volume_decline_score (line 50) has returned
score_timeframe(tf_name, df, pattern_score, vp) ==
    IF df = <<>> THEN [kind |-> "IndexError"]
    ELSE [kind |-> "outcome",
          outcome |-> TimeframeOutcome(tf_name, pattern_score, volume_decline_score(df),
                                       poc_distance_score(df, vp))]

\* frames whose last close may be 0
ZeroCloseFrames ==
    UNION {{[i \in 1..n |-> Candle(i * MinutesPerDay, cs[i], 1)] : cs \in [1..n -> {0, 10}]} :
             n \in 1..2}

TimeframeCall(df) == [df |-> df, name |-> "daily", pattern_score |-> Zero]

TimeframeInputs == {TimeframeCall(df) : df \in ProfileFrames \cup ZeroCloseFrames}

\* main.py lines 39-40: vp is the volume profile of the same frame
ProfileOf(df) == compute_volume_profile(df, BINS, TARGET_VALUE_AREA)

ScoreTimeframe ==
    /\ dOut.kind = "none"
    /\ dOut' = score_timeframe(dIn.name, dIn.df, dIn.pattern_score, ProfileOf(dIn.df))
    /\ UNCHANGED <<fetchVars, dIn>>

InitTimeframe ==
    /\ tf = "daily"
    /\ now = Start
    /\ cacheFile = NoFile
    /\ state = [k \in TFs |-> NoInt]
    /\ last = NoLast
    /\ pending = NoPending
    /\ seen = "none"
    /\ dIn \in TimeframeInputs
    /\ dOut = NoResult

NextTimeframe == ScoreTimeframe

SpecTimeframe == InitTimeframe /\ [][NextTimeframe]_vars

LastClose(df) == df[Len(df)].close

\* |lastClose - poc| / lastClose
PocDistance(df, vp) ==
    LET diff == FracSub(<<LastClose(df), 1>>, vp.poc) IN
    IF FracLeq(Zero, diff) THEN Norm(diff[1], diff[2] * LastClose(df))
    ELSE Norm(-diff[1], diff[2] * LastClose(df))

\* C25: score_timeframe never raises; the POC-proximity score is 0 when the POC
\* is NaN or the last close is 0 and clamp(1 - |lastClose - poc| / lastClose,
\* 0, 1) otherwise; for an empty series both the volume-decline score and the
\* POC-proximity score are 0.
C25_PocProximity ==
    Detected =>
        /\ dOut.kind = "outcome"
        /\ dIn.df = <<>> =>
              /\ dOut.outcome.volume_decline_score = Zero
              /\ dOut.outcome.poc_distance_score = Zero
        /\ dIn.df # <<>> =>
              LET vp == ProfileOf(dIn.df) IN
              dOut.outcome.poc_distance_score
                = IF vp.poc = NaN \/ LastClose(dIn.df) = 0 THEN Zero
                  ELSE FracMax(Zero, FracMin(<<1, 1>>,
                                   FracSub(<<1, 1>>, PocDistance(dIn.df, vp))))


----------------------------------------------------------------------------
(* volume_decline_score: src/src/scoring/coin_ranker.py lines 27-37 *)

\* a scored frame has at most this many candles
MaxCandles == 12

DeclineVols == {0, 1, 3}

\* n candles whose volume is a up to row k1, b up to row k2 and c after it
DeclineFrame(n, k1, k2, a, b, c) ==
    [i \in 1..n |-> Candle(i * MinutesPerDay, 10,
                           IF i <= k1 THEN a ELSE IF i <= k2 THEN b ELSE c)]

DeclineFrames ==
    UNION {UNION {{DeclineFrame(n, k1, k2, a, b, c) :
                      k2 \in k1..n, a \in DeclineVols, b \in DeclineVols, c \in DeclineVols} :
                  k1 \in 0..n} : n \in 0..MaxCandles}

DeclineInputs == {[df |-> df] : df \in DeclineFrames}

Decline ==
    /\ dOut.kind = "none"
    /\ dOut' = [kind |-> "decline", score |-> volume_decline_score(dIn.df)]
    /\ UNCHANGED <<fetchVars, dIn>>

InitDecline ==
    /\ tf = "daily"
    /\ now = Start
    /\ cacheFile = NoFile
    /\ state = [k \in TFs |-> NoInt]
    /\ last = NoLast
    /\ pending = NoPending
    /\ seen = "none"
    /\ dIn \in DeclineInputs
    /\ dOut = NoResult

NextDecline == Decline

SpecDecline == InitDecline /\ [][NextDecline]_vars

\* the total volume of rows lo..hi
VolumeOfRows(df, lo, hi) == SumSeq([k \in 1..(hi - lo + 1) |-> df[lo + k - 1].volume])

\* C26: the volume-decline score is 0 when the series has fewer than 10 candles
\* or the mean volume of its first quarter is <= 0; otherwise it is
\* clamp((early - recent) / early, 0, 1) over the means of the first and the
\* last floor(n/4) candles; it always lies in [0, 1].
C26_VolumeDecline ==
    Detected =>
        LET n      == Len(dIn.df)
            q      == n \div 4
            early  == VolumeOfRows(dIn.df, 1, q)
            recent == VolumeOfRows(dIn.df, n - q + 1, n)
        IN /\ dOut.score = IF n < 10 \/ early <= 0 THEN Zero
                           ELSE IF recent >= early THEN Zero
                           ELSE Norm(early - recent, early)
           /\ FracLeq(Zero, dOut.score) /\ FracLeq(dOut.score, <<1, 1>>)

\* twelve candles whose volume fell from 3 in the first quarter to 1 in the last
C26_Witness ==
    /\ Detected /\ Len(dIn.df) = 12
    /\ \A i \in 1..3 : dIn.df[i].volume = 3 /\ dIn.df[i + 9].volume = 1
    /\ dOut.score = <<2, 3>>


----------------------------------------------------------------------------
(* Passed results of the variant-A detector: pattern_detector.py 54-65 *)

\* C27: a result with passed=true has a strictly negative least-squares slope
\* of its peak highs.
C27_PassedSlopeNegative ==
    (Detected /\ dOut.kind = "result" /\ dOut.passed) =>
        /\ dOut.slope = _slope(Highs(dOut.peaks))
        /\ ~FracLeq(Zero, dOut.slope)

\* a passed result that has a violating step
C27_Witness ==
    /\ Detected /\ dOut.kind = "result" /\ dOut.passed
    /\ dOut.violations = 1
    /\ ~FracLeq(Zero, dOut.slope)

\* C28: a passed result has more descending steps than violations, equal
\* consecutive peak highs counting as violations with zero break.
C28_PassedMajority ==
    (Detected /\ dOut.kind = "result" /\ dOut.passed) =>
        /\ dOut.violations = Cardinality(BreakSteps(Highs(dOut.peaks)))
        /\ DescendingSteps(Highs(dOut.peaks)) > dOut.violations


----------------------------------------------------------------------------
(* Forced refresh: data_fetcher.py lines 170-198 with refresh=True *)

\* C29: with forceRefresh the prior cache is ignored: the call reaches the
\* source with the horizon bound as cursor, and the stored series is the sorted
\* (and, if configured, resampled) upstream response, nothing of the cached
\* series being merged.
C29_ForcedRefresh ==
    (IsFetch /\ last.refresh) =>
        /\ ~last.fast /\ last.called
        /\ last.since = last.horizon
        /\ ~last.up_error =>
              /\ Stored(last)
              /\ last.ret = IF TIMEFRAMES[tf].resample_rule # None
                            THEN _resample_ohlc(SortValues(last.resp))
                            ELSE SortValues(last.resp)
              /\ cacheFile.readable => cacheFile.rows = last.ret

\* a forced refresh over a readable cache holding a timestamp the response
\* lacks: the timestamp is no longer stored
C29_Witness ==
    /\ IsFetch /\ last.refresh /\ Stored(last)
    /\ last.prior.readable
    /\ \E x \in Times(last.prior.rows) : x \notin Times(last.ret)
    /\ last.ret # <<>>
    /\ cacheFile.rows = last.ret


----------------------------------------------------------------------------
(* Incremental fetches against a candle source whose history only grows:   *)
(* data_fetcher.py fetch_ohlc, lines 165-210.  The source's history is     *)
(* dIn.candles, one payload per slot; its last candle is still in progress *)
(* while dIn.open holds.                                                    *)

\* the history holds at most this many candles
MaxHistory == 3

History(t, vs) == [k \in 1..Len(vs) |-> RawCandle(t, k, vs[k])]

\* what get_ohlc returns for a cursor: the candles after it, the candle on the
\* cursor itself included or not
Serve(candles, since, inclusive) ==
    SelectSeq(candles, LAMBDA r : \/ since = NoInt
                                  \/ r.time > since[1]
                                  \/ inclusive /\ r.time = since[1])

\* the cursor line 182 or 174 would pass now
CursorNow == FetchPlan(tf, cacheFile, now, FALSE, UpstreamError).since

\* the series a single full fetch of the present history would store
FullFetch ==
    BuildFrame(TIMEFRAMES[tf], FALSE, <<>>,
               Serve(dIn.candles, _kraken_ts(TIMEFRAMES[tf].history_days, now), TRUE))

\* a new candle opens; the one before it is final from now on
OpenCandle ==
    /\ Len(dIn.candles) < MaxHistory
    /\ dIn' = [dIn EXCEPT !.candles = @ \o <<RawCandle(tf, Len(@) + 1, 1)>>,
                          !.open = TRUE, !.fetched = FALSE]
    /\ UNCHANGED <<fetchVars, dOut>>

\* the candle in progress is finalized with its closing payload
Finalize ==
    /\ dIn.open
    /\ dIn' = [dIn EXCEPT !.candles[Len(dIn.candles)] = RawCandle(tf, Len(dIn.candles), 2),
                          !.open = FALSE, !.fetched = FALSE]
    /\ UNCHANGED <<fetchVars, dOut>>

\* fetch_ohlc with forceRefresh false over the stale cache file
IncrementalFetch ==
    /\ cacheFile.exists
    /\ ~_is_cache_fresh(cacheFile, cache_ttl(TIMEFRAMES[tf]), now)
    /\ \E inclusive \in BOOLEAN :
          Fetch(FALSE, [error |-> FALSE, raw |-> Serve(dIn.candles, CursorNow, inclusive)])
    /\ dIn' = [dIn EXCEPT !.fetched = TRUE]
    /\ UNCHANGED dOut

InitGrow ==
    /\ tf \in TFs
    /\ now = Start
    /\ \E n \in 1..(MaxHistory - 1), open \in BOOLEAN :
          /\ dIn = [kind |-> "upstream",
                    candles |-> History(tf, [k \in 1..n |-> IF open /\ k = n THEN 1 ELSE 2]),
                    open |-> open, fetched |-> FALSE]
          /\ cacheFile = EarlierCache(tf, dIn.candles)
    /\ state = StateAfter([k \in TFs |-> NoInt], _state_key(tf), cacheFile.rows)
    /\ last = NoLast
    /\ pending = NoPending
    /\ seen = "none"
    /\ dOut = NoResult

NextGrow ==
    \/ OpenCandle
    \/ Finalize
    \/ IncrementalFetch
    \/ Tick /\ UNCHANGED detVars

SpecGrow == InitGrow /\ [][NextGrow]_vars

\* C30: after stale-cache incremental fetches against a growing history, every
\* row a single full fetch would store is stored, with the same content, for
\* every timeframe.
C30_IncrementalEqualsFull ==
    (dIn.kind = "upstream" /\ dIn.fetched /\ cacheFile.readable) =>
        \A i \in 1..Len(FullFetch) :
            \E j \in 1..Len(cacheFile.rows) : cacheFile.rows[j] = FullFetch[i]

====
